---- MODULE Spec2Model ----
(***************************************************************************)
(* Model of the analysis core of cartographer: the code graph              *)
(* (src/analysis/graph.rs), the import resolver (src/analysis/imports.rs), *)
(* the module detector (src/analysis/modules.rs) and the orchestrator      *)
(* (src/analysis/mod.rs).                                                  *)
(*                                                                         *)
(* Representation of text.  A string is kept as the list of its pieces     *)
(* between '.' characters ("a.b" is <<"a","b">>, "" is <<"">>, ".x" is     *)
(* <<"","x">>): str.split('.') is then the identity, parts.join(".") is    *)
(* concatenation, and a file name carries its extension as its last piece. *)
(* A path is the list of its components, an absolute path starting with    *)
(* the component RootDir.                                                  *)
(***************************************************************************)
EXTENDS Integers, Sequences, FiniteSets, TLC

VARIABLES
    graph,          \* the CodeGraph under construction
    pc,             \* position of the control flow of the specification at hand
    ret,            \* what the last operation returned
    modules,        \* the Vec<Module> returned by ModuleDetector::detect
    min_files,      \* ModuleDetector.min_files
    files_order,    \* the order in which the HashMap graph.files iterates
    disk,           \* the files below the analysis root, with their content
    source_files,   \* Analyzer::analyze: the discovered, sorted paths
    parse_errors,   \* Analyzer::parse_and_build_graph: path -> message
    idx,            \* Analyzer::parse_and_build_graph: position in source_files
    run,            \* Analyzer: which run over the unchanged file set this is
    prev,           \* Analyzer: the result of the previous run
    rin,            \* ImportResolver: the inputs of the call at hand
    rout,           \* ImportResolver: the ResolvedImport returned
    resolver,       \* the ImportResolver that resolve_all is called on
    rprev           \* ImportResolver: what the previous call returned

vars == <<graph, pc, ret, modules, min_files, files_order, disk, source_files,
          parse_errors, idx, run, prev, rin, rout, resolver, rprev>>

detectorVars == <<modules, min_files, files_order>>

analyzerVars == <<disk, source_files, parse_errors, idx, run, prev>>

resolverVars == <<rin, rout, resolver, rprev>>

----------------------------------------------------------------------------
(* Option<T>, sequences *)

None == <<>>

Some(x) == <<x>>

IsSome(o) == o # <<>>

Unwrap(o) == o[1]

Front(s) == SubSeq(s, 1, Len(s) - 1)

Last(s) == s[Len(s)]

Range(s) == {s[i] : i \in 1..Len(s)}

IsPrefix(p, s) == Len(p) <= Len(s) /\ SubSeq(s, 1, Len(p)) = p

RECURSIVE Concat(_)
Concat(ss) == IF ss = <<>> THEN <<>> ELSE Head(ss) \o Concat(Tail(ss))

RECURSIVE SelectSeqBy(_, _)
SelectSeqBy(s, keep) ==
    IF s = <<>> THEN <<>>
    ELSE (IF Head(s) \in keep THEN <<Head(s)>> ELSE <<>>) \o SelectSeqBy(Tail(s), keep)

Permutation(S) == {s \in [1..Cardinality(S) -> S] : Range(s) = S}

----------------------------------------------------------------------------
(* std::path::Path *)

RootDir == <<"/">>

IsAbsolute(p) == Len(p) > 0 /\ p[1] = RootDir

\* Path::parent: None for the empty path and for the root.
Parent(p) == IF p = <<>> \/ p = <<RootDir>> THEN None ELSE Some(Front(p))

\* Path::join: an absolute argument replaces the receiver.
Join(p, q) == IF IsAbsolute(q) THEN q ELSE p \o q

\* Path::strip_prefix
StripPrefix(p, base) ==
    IF IsPrefix(base, p) THEN Some(SubSeq(p, Len(base) + 1, Len(p))) ELSE None

\* Path::file_name: None for the empty path and for the root.
FileName(p) == IF p = <<>> \/ Last(p) = RootDir THEN None ELSE Some(Last(p))

\* A file name has an extension when a '.' follows a non-empty stem.
HasExtension(name) == Len(name) > 1 /\ ~(Len(name) = 2 /\ name[1] = "")

\* Path::extension
Extension(p) ==
    IF IsSome(FileName(p)) /\ HasExtension(Last(p)) THEN Some(Last(Last(p))) ELSE None

\* Path::with_extension: the extension of the last component is replaced, or
\* added when it has none; a path without a file name is left alone.
WithExtension(p, ext) ==
    IF ~IsSome(FileName(p)) THEN p
    ELSE LET name == Last(p)
             stem == IF HasExtension(name) THEN Front(name) ELSE name
         IN  Front(p) \o <<stem \o <<ext>>>>

\* components().filter_map(|c| c.as_os_str().to_str()).collect().join(".")
JoinDot(parts) == IF parts = <<>> THEN <<"">> ELSE Concat(parts)

\* PathBuf::from(module.replace('.', "/")): every '.' becomes a separator, empty
\* components vanish, and a leading separator makes the path absolute.
RECURSIVE NonEmptyPieces(_)
NonEmptyPieces(m) ==
    IF m = <<>> THEN <<>>
    ELSE (IF Head(m) = "" THEN <<>> ELSE <<<<Head(m)>>>>) \o NonEmptyPieces(Tail(m))

ModuleToPath(m) ==
    (IF Len(m) > 1 /\ m[1] = "" THEN <<RootDir>> ELSE <<>>) \o NonEmptyPieces(m)

----------------------------------------------------------------------------
(* CodeGraph: src/analysis/graph.rs *)

FileNodeId(id) == [tag |-> "File", id |-> id]

ClassNodeId(id) == [tag |-> "Class", id |-> id]

FunctionNodeId(id) == [tag |-> "Function", id |-> id]

\* HashMap::insert
Insert(map, k, v) == (k :> v) @@ map

EmptyMap == <<>>

\* CodeGraph::new
NewGraph ==
    [files |-> EmptyMap, classes |-> EmptyMap, functions |-> EmptyMap,
     edges |-> <<>>, path_to_file |-> EmptyMap, module_to_file |-> EmptyMap,
     next_file_id |-> 0, next_class_id |-> 0, next_function_id |-> 0]

\* A faulty allocation that hands out the current counter without advancing it.
AddFunctionInternalStuck(g, func, file_id, class_id) ==
    LET func_id == g.next_function_id
        node == [name |-> func.name, file |-> file_id, class |-> class_id]
    IN  [g |-> [g EXCEPT !.functions = Insert(@, func_id, node)], id |-> func_id]

\* A faulty insertion that forgets the owning class of a method.
AddFunctionInternalNoClass(g, func, file_id, class_id) ==
    LET func_id == g.next_function_id
        node == [name |-> func.name, file |-> file_id, class |-> None]
    IN  [g |-> [g EXCEPT !.next_function_id = @ + 1,
                         !.functions = Insert(@, func_id, node)],
         id |-> func_id]

\* CodeGraph::add_function_internal
AddFunctionInternal(g, func, file_id, class_id) ==
    LET func_id == g.next_function_id
        node == [name |-> func.name, file |-> file_id, class |-> class_id]
    IN  [g |-> [g EXCEPT !.next_function_id = @ + 1,
                         !.functions = Insert(@, func_id, node)],
         id |-> func_id]

\* for func in funcs { ids.push(self.add_function_internal(func, file_id, class_id)) }
RECURSIVE AddFunctions(_, _, _, _)
AddFunctions(g, funcs, file_id, class_id) ==
    IF funcs = <<>> THEN [g |-> g, ids |-> <<>>]
    ELSE LET r == AddFunctionInternal(g, Head(funcs), file_id, class_id)
             rest == AddFunctions(r.g, Tail(funcs), file_id, class_id)
         IN  [g |-> rest.g, ids |-> <<r.id>> \o rest.ids]

\* CodeGraph::add_class_internal
AddClassInternal(g, class, file_id) ==
    LET class_id == g.next_class_id
        g1 == [g EXCEPT !.next_class_id = @ + 1]
        m == AddFunctions(g1, class.methods, file_id, Some(class_id))
        node == [name |-> class.name, file |-> file_id, methods |-> m.ids]
    IN  [g |-> [m.g EXCEPT !.classes = Insert(@, class_id, node)], id |-> class_id]

\* for class in &parsed.classes { class_ids.push(self.add_class_internal(class, file_id)) }
RECURSIVE AddClasses(_, _, _)
AddClasses(g, classes, file_id) ==
    IF classes = <<>> THEN [g |-> g, ids |-> <<>>]
    ELSE LET r == AddClassInternal(g, Head(classes), file_id)
             rest == AddClasses(r.g, Tail(classes), file_id)
         IN  [g |-> rest.g, ids |-> <<r.id>> \o rest.ids]

\* FileNode::from_parsed
FileNodeFromParsed(parsed, class_ids, func_ids) ==
    [path |-> parsed.path, module_name |-> parsed.module_name,
     total_lines |-> parsed.total_lines, code_lines |-> parsed.code_lines,
     classes |-> class_ids, functions |-> func_ids, imports |-> parsed.imports]

\* CodeGraph::add_file
AddFile(g, parsed) ==
    LET file_id == g.next_file_id
        g1 == [g EXCEPT !.next_file_id = @ + 1]
        c == AddClasses(g1, parsed.classes, file_id)
        f == AddFunctions(c.g, parsed.functions, file_id, None)
        node == FileNodeFromParsed(parsed, c.ids, f.ids)
    IN  [g |-> [f.g EXCEPT !.path_to_file = Insert(@, parsed.path, file_id),
                           !.module_to_file = Insert(@, parsed.module_name, file_id),
                           !.files = Insert(@, file_id, node)],
         id |-> file_id]

\* A faulty add_edge that puts the new edge in front of the others.
AddEdgeInFront(g, edge) == [g EXCEPT !.edges = <<edge>> \o @]

\* CodeGraph::add_edge
AddEdge(g, edge) == [g EXCEPT !.edges = Append(@, edge)]

\* Edge::new
Edge(from, to, kind) == [from |-> from, to |-> to, kind |-> kind]

\* Edge::imports
EdgeImports(from, to) == Edge(FileNodeId(from), FileNodeId(to), "Imports")

\* CodeGraph::get_file
GetFile(g, id) == IF id \in DOMAIN g.files THEN Some(g.files[id]) ELSE None

\* CodeGraph::file_by_path
FileByPath(g, path) ==
    IF path \in DOMAIN g.path_to_file THEN Some(g.path_to_file[path]) ELSE None

\* CodeGraph::file_by_module
FileByModule(g, module) ==
    IF module \in DOMAIN g.module_to_file THEN Some(g.module_to_file[module]) ELSE None

\* A faulty imports_of that does not look at the kind of the edge.
ImportsOfAnyKind(g, file) ==
    LET from_file(e) == e.from = FileNodeId(file)
        to_file(e) == e.to.tag = "File"
        kept == SelectSeq(SelectSeq(g.edges, from_file), to_file)
    IN  [i \in 1..Len(kept) |-> kept[i].to.id]

\* CodeGraph::imports_of: filter on kind and source, filter_map on the target
ImportsOf(g, file) ==
    LET imports_from(e) == e.kind = "Imports" /\ e.from = FileNodeId(file)
        to_file(e) == e.to.tag = "File"
        kept == SelectSeq(SelectSeq(g.edges, imports_from), to_file)
    IN  [i \in 1..Len(kept) |-> kept[i].to.id]

\* CodeGraph::imported_by: filter on kind and target, filter_map on the source
ImportedBy(g, file) ==
    LET imports_to(e) == e.kind = "Imports" /\ e.to = FileNodeId(file)
        from_file(e) == e.from.tag = "File"
        kept == SelectSeq(SelectSeq(g.edges, imports_to), from_file)
    IN  [i \in 1..Len(kept) |-> kept[i].from.id]

\* Iterator::sum over the values of a map
RECURSIVE SumOf(_)
SumOf(map) ==
    IF DOMAIN map = {} THEN 0
    ELSE LET k == CHOOSE k \in DOMAIN map : TRUE
         IN  map[k] + SumOf([j \in DOMAIN map \ {k} |-> map[j]])

\* A faulty stats that counts the distinct edges.
StatsDistinctEdges(g) ==
    [files |-> Cardinality(DOMAIN g.files),
     classes |-> Cardinality(DOMAIN g.classes),
     functions |-> Cardinality(DOMAIN g.functions),
     edges |-> Cardinality({g.edges[i] : i \in 1..Len(g.edges)}),
     total_lines |-> SumOf([id \in DOMAIN g.files |-> g.files[id].total_lines]),
     code_lines |-> SumOf([id \in DOMAIN g.files |-> g.files[id].code_lines])]

\* CodeGraph::stats
Stats(g) ==
    [files |-> Cardinality(DOMAIN g.files),
     classes |-> Cardinality(DOMAIN g.classes),
     functions |-> Cardinality(DOMAIN g.functions),
     edges |-> Len(g.edges),
     total_lines |-> SumOf([id \in DOMAIN g.files |-> g.files[id].total_lines]),
     code_lines |-> SumOf([id \in DOMAIN g.files |-> g.files[id].code_lines])]

\* CodeGraph::get_file and its siblings: whether the graph holds the node
HasNode(g, n) ==
    CASE n.tag = "File" -> n.id \in DOMAIN g.files
      [] n.tag = "Class" -> n.id \in DOMAIN g.classes
      [] n.tag = "Function" -> n.id \in DOMAIN g.functions

----------------------------------------------------------------------------
(* Ordering of paths: impl Ord for Path compares component by component, the
   root component before any name, names by their bytes. *)

\* The component names of the model in byte order ('_' sorts before the
\* lower-case letters).
NameOrder ==
    << <<"__init__", "py">>, <<"a">>, <<"b">>, <<"c">>, <<"core">>, <<"main", "py">>,
       <<"models">>, <<"notes", "txt">>, <<"other">>, <<"pkg">>, <<"proj">>,
       <<"setup", "py">>, <<"src">>, <<"tests">>, <<"user", "py">>,
       <<"utils", "py">>, <<"x", "py">> >>

NameRank(name) ==
    IF name = RootDir THEN 0 ELSE CHOOSE i \in 1..Len(NameOrder) : NameOrder[i] = name

RECURSIVE PathLess(_, _)
PathLess(p, q) ==
    IF q = <<>> THEN FALSE
    ELSE IF p = <<>> THEN TRUE
    ELSE IF Head(p) = Head(q) THEN PathLess(Tail(p), Tail(q))
    ELSE NameRank(Head(p)) < NameRank(Head(q))

\* sort / sort_by over distinct paths
RECURSIVE SortPaths(_)
SortPaths(S) ==
    IF S = {} THEN <<>>
    ELSE LET least == CHOOSE p \in S : \A q \in S \ {p} : PathLess(p, q)
         IN  <<least>> \o SortPaths(S \ {least})

----------------------------------------------------------------------------
(* ModuleDetector: src/analysis/modules.rs *)

ProjectRoot == <<RootDir, <<"proj">>>>

InitPy == <<"__init__", "py">>

\* str::to_uppercase on the words of the model, as a table: TLA+ has no
\* operation on the characters of a string
UpperCase ==
    [models |-> "MODELS", schemas |-> "SCHEMAS", entities |-> "ENTITIES",
     domain |-> "DOMAIN", views |-> "VIEWS", templates |-> "TEMPLATES", pages
     |-> "PAGES", ui |-> "UI", services |-> "SERVICES", handlers |->
     "HANDLERS", controllers |-> "CONTROLLERS", actions |-> "ACTIONS", utils
     |-> "UTILS", helpers |-> "HELPERS", lib |-> "LIB", common |-> "COMMON",
     shared |-> "SHARED", api |-> "API", routes |-> "ROUTES", endpoints |->
     "ENDPOINTS", resources |-> "RESOURCES", tests |-> "TESTS", test |->
     "TEST", testing |-> "TESTING", specs |-> "SPECS", config |-> "CONFIG",
     settings |-> "SETTINGS", conf |-> "CONF", configuration |->
     "CONFIGURATION", core |-> "CORE", main |-> "MAIN", app |-> "APP",
     application |-> "APPLICATION", pkg |-> "PKG", model |-> "MODEL", src |->
     "SRC", apis |-> "APIS", v2 |-> "V2", py |-> "PY"]

\* The same words with the first letter in upper case.
Capitalized ==
    [models |-> "Models", schemas |-> "Schemas", entities |-> "Entities",
     domain |-> "Domain", views |-> "Views", templates |-> "Templates", pages
     |-> "Pages", ui |-> "Ui", services |-> "Services", handlers |->
     "Handlers", controllers |-> "Controllers", actions |-> "Actions", utils
     |-> "Utils", helpers |-> "Helpers", lib |-> "Lib", common |-> "Common",
     shared |-> "Shared", api |-> "Api", routes |-> "Routes", endpoints |->
     "Endpoints", resources |-> "Resources", tests |-> "Tests", test |->
     "Test", testing |-> "Testing", specs |-> "Specs", config |-> "Config",
     settings |-> "Settings", conf |-> "Conf", configuration |->
     "Configuration", core |-> "Core", main |-> "Main", app |-> "App",
     application |-> "Application", pkg |-> "Pkg", model |-> "Model", src |->
     "Src", apis |-> "Apis", v2 |-> "V2", py |-> "Py"]

\* A faulty conversion that leaves the name as it is.
ToLowerAsIs(s) == s

\* str::to_lowercase on the spellings above; any other string of the model
\* is in lower case already
ToLower(s) ==
    IF \E w \in DOMAIN UpperCase : UpperCase[w] = s
    THEN CHOOSE w \in DOMAIN UpperCase : UpperCase[w] = s
    ELSE IF \E w \in DOMAIN Capitalized : Capitalized[w] = s
    THEN CHOOSE w \in DOMAIN Capitalized : Capitalized[w] = s
    ELSE s

\* ModuleType::from_name
ModuleTypeFromName(name) ==
    IF Len(name) # 1 THEN "Generic"
    ELSE LET lower == ToLower(name[1])
         IN  CASE lower \in {"models", "schemas", "entities", "domain"} -> "Models"
               [] lower \in {"views", "templates", "pages", "ui"} -> "Views"
               [] lower \in {"services", "handlers", "controllers", "actions"} -> "Services"
               [] lower \in {"utils", "helpers", "lib", "common", "shared"} -> "Utils"
               [] lower \in {"api", "routes", "endpoints", "resources"} -> "Api"
               [] lower \in {"tests", "test", "testing", "specs"} -> "Tests"
               [] lower \in {"config", "settings", "conf", "configuration"} -> "Config"
               [] lower \in {"core", "main", "app", "application"} -> "Core"
               [] OTHER -> "Generic"

\* ModuleDetector::path_to_module_name
DetectorPathToModuleName(path) == IF path = <<>> THEN <<"root">> ELSE JoinDot(path)

\* detect, lines 108-118: the directory a file is grouped under, None when its
\* path has no parent
RelativeParent(file_node, project_root) ==
    LET file_path == IF IsAbsolute(file_node.path) THEN file_node.path
                     ELSE Join(project_root, file_node.path)
        parent == Parent(file_path)
    IN  IF ~IsSome(parent) THEN None
        ELSE LET stripped == StripPrefix(Unwrap(parent), project_root)
             IN  Some(IF IsSome(stripped) THEN Unwrap(stripped) ELSE Unwrap(parent))

\* A faulty grouping that flags a package index file without listing it.
DirFilesWithoutInit(g, project_root, order) ==
    LET listed == {i \in DOMAIN g.files :
                      /\ IsSome(RelativeParent(g.files[i], project_root))
                      /\ FileName(g.files[i].path) # Some(<<"__init__", "py">>)}
        dirs == {Unwrap(RelativeParent(g.files[id], project_root)) : id \in listed}
    IN  [d \in dirs |->
            SelectSeqBy(order,
                {id \in listed : RelativeParent(g.files[id], project_root) = Some(d)})]

\* detect, lines 106-130: dir_files and dir_has_init after the loop over
\* graph.all_files(), which visits the files in the order `order`
DirFiles(g, project_root, order) ==
    LET dirs == {Unwrap(RelativeParent(g.files[id], project_root)) :
                    id \in {i \in DOMAIN g.files :
                               IsSome(RelativeParent(g.files[i], project_root))}}
    IN  [d \in dirs |->
            SelectSeqBy(order,
                {id \in DOMAIN g.files :
                    RelativeParent(g.files[id], project_root) = Some(d)})]

DirHasInit(g, project_root, d) ==
    \E id \in DOMAIN g.files :
        /\ RelativeParent(g.files[id], project_root) = Some(d)
        /\ FileName(g.files[id].path) = Some(InitPy)

\* detect, lines 136-154: the Module built for a directory
MakeModule(g, project_root, path, files) ==
    [name |-> DetectorPathToModuleName(path),
     path |-> path,
     files |-> files,
     is_package |-> DirHasInit(g, project_root, path),
     module_type |-> IF IsSome(FileName(path)) THEN ModuleTypeFromName(Last(path))
                     ELSE "Generic",
     outgoing_imports |-> 0,
     incoming_imports |-> 0]

\* A faulty filter that keeps only the directories with more than min files.
DetectStrictFilter(g, project_root, min, order) ==
    LET dir_files == DirFiles(g, project_root, order)
        kept == {d \in DOMAIN dir_files : Len(dir_files[d]) > min}
        sorted == SortPaths(kept)
    IN  [i \in 1..Len(sorted) |-> MakeModule(g, project_root, sorted[i], dir_files[sorted[i]])]

\* ModuleDetector::detect
Detect(g, project_root, min, order) ==
    LET dir_files == DirFiles(g, project_root, order)
        kept == {d \in DOMAIN dir_files : Len(dir_files[d]) >= min}
        sorted == SortPaths(kept)
    IN  [i \in 1..Len(sorted) |-> MakeModule(g, project_root, sorted[i], dir_files[sorted[i]])]

\* f64.  A finite non-negative double is kept as its 53 significand bits, most
\* significant first, and its exponent: the value is
\* mantissa[1].mantissa[2]...mantissa[53] (binary) * 2^exp.  Zero has all bits 0.
MantissaBits == 53

F64Zero == [exp |-> 0, mantissa |-> [i \in 1..MantissaBits |-> 0]]

RECURSIVE Pow2(_)
Pow2(k) == IF k = 0 THEN 1 ELSE 2 * Pow2(k - 1)

\* The exponent of n / d: the e with 2^e <= n / d < 2^(e+1), for n, d > 0.
RECURSIVE ExponentOf(_, _, _)
ExponentOf(n, d, e) ==
    IF n >= 2 * d THEN ExponentOf(n, 2 * d, e + 1)
    ELSE IF n < d THEN ExponentOf(2 * n, d, e - 1)
    ELSE e

\* Long division: `count` further quotient bits of rem / den, rem < den, and
\* the remainder behind them; the bits are produced half by half.
RECURSIVE QuotientBits(_, _, _)
QuotientBits(rem, den, count) ==
    IF count = 0 THEN [bits |-> <<>>, rem |-> rem]
    ELSE IF count = 1
    THEN LET bit == IF 2 * rem >= den THEN 1 ELSE 0
         IN  [bits |-> <<bit>>, rem |-> 2 * rem - bit * den]
    ELSE LET first == QuotientBits(rem, den, count \div 2)
             second == QuotientBits(first.rem, den, count - count \div 2)
         IN  [bits |-> first.bits \o second.bits, rem |-> second.rem]

\* The significand plus one unit in the last place; a carry out of the first
\* bit gives 1.00...0 with the exponent raised.
Increment(bits) ==
    LET zeros == {i \in 1..Len(bits) : bits[i] = 0}
        last_zero == CHOOSE i \in zeros : \A j \in zeros : j <= i
    IN  [i \in 1..Len(bits) |->
            IF i < last_zero THEN bits[i] ELSE IF i = last_zero THEN 1 ELSE 0]

NextUp(x) ==
    IF \A i \in 1..MantissaBits : x.mantissa[i] = 1
    THEN [exp |-> x.exp + 1, mantissa |-> [i \in 1..MantissaBits |-> IF i = 1 THEN 1 ELSE 0]]
    ELSE [x EXCEPT !.mantissa = Increment(@)]

\* A faulty division that drops the bits behind the 53rd.
F64DivTruncating(n, d) ==
    IF n = 0 THEN F64Zero
    ELSE LET e == ExponentOf(n, d, 0)
             num == IF e < 0 THEN n * Pow2(-e) ELSE n
             den == IF e > 0 THEN d * Pow2(e) ELSE d
             q == QuotientBits(num - den, den, MantissaBits - 1)
         IN  [exp |-> e, mantissa |-> <<1>> \o q.bits]

\* n as f64 / d as f64 for small n >= 0 and d > 0 (both conversions exact):
\* IEEE 754 division, rounded to nearest, ties to even
F64Div(n, d) ==
    IF n = 0 THEN F64Zero
    ELSE LET e == ExponentOf(n, d, 0)
             num == IF e < 0 THEN n * Pow2(-e) ELSE n
             den == IF e > 0 THEN d * Pow2(e) ELSE d
             q == QuotientBits(num - den, den, MantissaBits - 1)
             down == [exp |-> e, mantissa |-> <<1>> \o q.bits]
         IN  IF 2 * q.rem > den \/ (2 * q.rem = den /\ Last(q.bits) = 1)
             THEN NextUp(down)
             ELSE down

\* Module::coupling_score
CouplingScore(module) ==
    IF module.files = <<>> THEN F64Zero
    ELSE F64Div(module.outgoing_imports + module.incoming_imports, Len(module.files))

\* calculate_coupling, lines 166-173: file path -> index of the module listing
\* the file, the modules and their files taken in order, a later entry of the
\* same path replacing an earlier one
RECURSIVE FileToModuleOf(_, _, _)
FileToModuleOf(g, files, index) ==
    IF files = <<>> THEN EmptyMap
    ELSE LET rest == FileToModuleOf(g, Front(files), index)
             file == GetFile(g, Last(files))
         IN  IF IsSome(file) THEN Insert(rest, Unwrap(file).path, index) ELSE rest

RECURSIVE FileToModule(_, _)
FileToModule(g, ms) ==
    IF ms = <<>> THEN EmptyMap
    ELSE FileToModuleOf(g, Last(ms).files, Len(ms)) @@ FileToModule(g, Front(ms))

\* calculate_coupling, lines 187-198: the paths tried for one import
CheckPaths(import) ==
    LET import_path == ModuleToPath(import.module)
    IN  {import_path, WithExtension(import_path, "py"), Join(import_path, <<InitPy>>)}

\* A faulty collection that also takes the hits in the module itself.
ImportedModulesWithSelf(g, ms, index) ==
    LET file_to_module == FileToModule(g, ms)
    IN  {file_to_module[path] :
            path \in {q \in UNION {CheckPaths(import) :
                            import \in UNION {Range(g.files[id].imports) :
                                id \in Range(ms[index].files) \cap DOMAIN g.files}} :
                        q \in DOMAIN file_to_module}}

\* calculate_coupling, lines 180-205: imported_modules of the module at index
ImportedModules(g, ms, index) ==
    LET file_to_module == FileToModule(g, ms)
    IN  {file_to_module[path] :
            path \in {q \in UNION {CheckPaths(import) :
                            import \in UNION {Range(g.files[id].imports) :
                                id \in Range(ms[index].files) \cap DOMAIN g.files}} :
                        q \in DOMAIN file_to_module /\ file_to_module[q] # index}}

\* calculate_coupling, lines 178-209: `incoming` after the modules up to
\* `upto` have been gone through, one more for every target of each of them
RECURSIVE Incoming(_, _, _)
Incoming(g, ms, upto) ==
    IF upto = 0 THEN [index \in 1..Len(ms) |-> 0]
    ELSE LET before == Incoming(g, ms, upto - 1)
             imported_modules == ImportedModules(g, ms, upto)
         IN  [index \in 1..Len(ms) |->
                 before[index] + (IF index \in imported_modules THEN 1 ELSE 0)]

\* A faulty calculation whose outgoing count includes the module itself.
CalculateCouplingWithSelf(g, ms) ==
    [index \in 1..Len(ms) |->
        [ms[index] EXCEPT
            !.outgoing_imports = Cardinality(ImportedModulesWithSelf(g, ms, index)),
            !.incoming_imports = Incoming(g, ms, Len(ms))[index]]]

\* ModuleDetector::calculate_coupling
CalculateCoupling(g, ms) ==
    [index \in 1..Len(ms) |->
        [ms[index] EXCEPT
            !.outgoing_imports = Cardinality(ImportedModules(g, ms, index)),
            !.incoming_imports = Incoming(g, ms, Len(ms))[index]]]

----------------------------------------------------------------------------
(* ImportResolver: src/analysis/imports.rs *)

\* Import::simple, Import::from_import, Import::relative; level is 0 unless the
\* kind is Relative.
Import(module, kind, level) == [module |-> module, kind |-> kind, level |-> level]

\* load_stdlib_modules: an excerpt of the list of standard-library names
StdlibModules == {"os", "sys", "json", "test"}

\* ImportResolver::new followed by add_third_party
NewResolver(project_root, third_party) ==
    [project_root |-> project_root,
     stdlib_modules |-> StdlibModules,
     third_party_modules |-> third_party]

\* ImportResolver::is_stdlib
IsStdlib(r, module) == module[1] \in r.stdlib_modules

\* ImportResolver::is_third_party
IsThirdParty(r, module) == module[1] \in r.third_party_modules

\* Path::exists on a disk holding the files fs: a file on it, or a directory
\* that holds one
Exists(fs, p) == p \in fs \/ \E f \in fs : IsPrefix(p, f)

\* A faulty lookup that returns the .py candidate without looking at the disk.
FindModuleFileUnchecked(fs, module_path) == Some(WithExtension(module_path, "py"))

\* ImportResolver::find_module_file
FindModuleFile(fs, module_path) ==
    LET py_file == WithExtension(module_path, "py")
        init_file == Join(module_path, <<InitPy>>)
    IN  IF Exists(fs, py_file) THEN Some(py_file)
        ELSE IF Exists(fs, init_file) THEN Some(init_file)
        ELSE None

\* ImportResolver::find_local_module
FindLocalModule(r, fs, module) ==
    FindModuleFile(fs, Join(r.project_root, ModuleToPath(module)))

\* ImportResolver::path_to_module
PathToModule(r, path) ==
    LET stripped == StripPrefix(path, r.project_root)
    IN  JoinDot(IF IsSome(stripped) THEN Unwrap(stripped) ELSE path)

\* resolve_relative, lines 179-181, n times: one step up, staying put at the top
RECURSIVE Ascend(_, _)
Ascend(dir, n) ==
    IF n <= 0 THEN dir
    ELSE Ascend(IF IsSome(Parent(dir)) THEN Unwrap(Parent(dir)) ELSE dir, n - 1)

\* A faulty ascent that climbs one directory per level.
BaseDirPerLevel(current_dir, level) == Ascend(current_dir, level)

\* resolve_relative, lines 177-182: for _ in 1..level
BaseDir(current_dir, level) == Ascend(current_dir, level - 1)

\* ImportResolver::resolve_relative
ResolveRelative(r, fs, import, current_file, level) ==
    LET current_dir == IF IsSome(Parent(current_file)) THEN Unwrap(Parent(current_file))
                       ELSE <<>>
        base_dir == BaseDir(current_dir, level)
        base_module == PathToModule(r, base_dir)
        full_module == IF import.module = <<"">> THEN base_module
                       ELSE IF base_module = <<"">> THEN import.module
                       ELSE base_module \o import.module
        module_path == IF import.module = <<"">> THEN base_dir
                       ELSE Join(base_dir, ModuleToPath(import.module))
        resolved_path == FindModuleFile(fs, module_path)
    IN  [import |-> import,
         import_type |-> IF IsSome(resolved_path) THEN "Local" ELSE "Unknown",
         resolved_path |-> resolved_path,
         resolved_module |-> full_module]

\* A faulty resolve that looks for a local file before it consults the
\* standard-library and third-party sets.
ResolveLocalFirst(r, fs, import, current_file) ==
    IF import.kind = "Relative"
    THEN ResolveRelative(r, fs, import, current_file, import.level)
    ELSE IF IsSome(FindLocalModule(r, fs, import.module))
    THEN [import |-> import, import_type |-> "Local",
          resolved_path |-> FindLocalModule(r, fs, import.module),
          resolved_module |-> import.module]
    ELSE IF IsStdlib(r, import.module)
    THEN [import |-> import, import_type |-> "Stdlib", resolved_path |-> None,
          resolved_module |-> import.module]
    ELSE [import |-> import, import_type |-> "ThirdParty", resolved_path |-> None,
          resolved_module |-> import.module]

\* ImportResolver::resolve
Resolve(r, fs, import, current_file) ==
    IF import.kind = "Relative"
    THEN ResolveRelative(r, fs, import, current_file, import.level)
    ELSE IF IsStdlib(r, import.module)
    THEN [import |-> import, import_type |-> "Stdlib", resolved_path |-> None,
          resolved_module |-> import.module]
    ELSE IF IsThirdParty(r, import.module)
    THEN [import |-> import, import_type |-> "ThirdParty", resolved_path |-> None,
          resolved_module |-> import.module]
    ELSE IF IsSome(FindLocalModule(r, fs, import.module))
    THEN [import |-> import, import_type |-> "Local",
          resolved_path |-> FindLocalModule(r, fs, import.module),
          resolved_module |-> import.module]
    ELSE [import |-> import, import_type |-> "ThirdParty", resolved_path |-> None,
          resolved_module |-> import.module]

\* ImportResolver::resolve_all
ResolveAll(r, fs, imports, current_file) ==
    [i \in 1..Len(imports) |-> Resolve(r, fs, imports[i], current_file)]

\* A faulty resolver that remembers the top-level names it was asked for as
\* third-party names.
SelfAfterResolveLearning(r, imports) ==
    [r EXCEPT !.third_party_modules =
        @ \cup {imports[i].module[1] : i \in {j \in 1..Len(imports) :
                                                imports[j].kind # "Relative"}}]

\* resolve and resolve_all take &self, and no field of ImportResolver has
\* interior mutability: the resolver after the call is the resolver before it
SelfAfterResolve(r, imports) == r

----------------------------------------------------------------------------
(* Bounds of the model *)

MaxFiles == 3

MaxEdges == 2

MaxMinFiles == 2

MaxLevel == 3

MaxDepth == 2

MaxImports == 2

MaxCount == 6

----------------------------------------------------------------------------
(* Specification of the graph operations: any sequence of add_file and
   add_edge calls on one CodeGraph. *)

Fn(name) == [name |-> name]

Class(name, methods) == [name |-> name, methods |-> methods]

ParsedFile(path, module_name, classes, functions, imports, total, code) ==
    [path |-> path, module_name |-> module_name, classes |-> classes,
     functions |-> functions, imports |-> imports,
     total_lines |-> total, code_lines |-> code]

\* The parsed files the callers of add_file pass in.
GraphFiles ==
    { ParsedFile(ProjectRoot \o <<<<"pkg">>, InitPy>>, <<"pkg">>, <<>>, <<>>, <<>>, 0, 0),
      ParsedFile(ProjectRoot \o <<<<"pkg">>, <<"main", "py">>>>, <<"pkg", "main">>,
                 <<Class("A", <<Fn("m1"), Fn("m2")>>)>>, <<Fn("main")>>, <<>>, 3, 2),
      ParsedFile(<<<<"utils", "py">>>>, <<"utils">>,
                 <<Class("B", <<>>), Class("C", <<Fn("m1")>>)>>, <<>>, <<>>, 2, 1),
      ParsedFile(ProjectRoot \o <<<<"pkg", "py">>>>, <<"pkg">>, <<>>, <<Fn("run")>>, <<>>, 1, 1) }

\* The edges the callers of add_edge pass in: ids are plain integers a caller
\* can make up, so an edge may name a node the graph does not hold.
EdgeUniverse ==
    { EdgeImports(0, 1), EdgeImports(1, 0), EdgeImports(0, 0),
      Edge(FileNodeId(0), ClassNodeId(0), "Imports"),
      Edge(ClassNodeId(0), FileNodeId(0), "Imports"),
      Edge(FileNodeId(0), FileNodeId(1), "Calls"),
      Edge(FunctionNodeId(1), ClassNodeId(0), "Inherits") }

NoRet == [op |-> "none", id |-> -1]

AnalyzerIdle ==
    /\ disk = {} /\ source_files = <<>> /\ parse_errors = EmptyMap /\ idx = 0
    /\ run = 0 /\ prev = <<>>

ResolverIdle == rin = <<>> /\ rout = <<>> /\ resolver = <<>> /\ rprev = <<>>

InitGraph ==
    /\ graph = NewGraph /\ pc = "build" /\ ret = NoRet
    /\ modules = <<>> /\ min_files = 1 /\ files_order = <<>>
    /\ AnalyzerIdle /\ ResolverIdle

AddFileFrom(universe) ==
    /\ pc = "build"
    /\ Cardinality(DOMAIN graph.files) < MaxFiles
    /\ \E parsed \in universe :
          LET r == AddFile(graph, parsed)
          IN  /\ graph' = r.g
              /\ ret' = [op |-> "add_file", id |-> r.id]
    /\ UNCHANGED <<pc, detectorVars, analyzerVars, resolverVars>>

GraphAddFile == AddFileFrom(GraphFiles)

GraphAddEdge ==
    /\ pc = "build"
    /\ Len(graph.edges) < MaxEdges
    /\ \E edge \in EdgeUniverse :
          /\ graph' = AddEdge(graph, edge)
          /\ ret' = [op |-> "add_edge", id |-> -1]
    /\ UNCHANGED <<pc, detectorVars, analyzerVars, resolverVars>>

NextGraph == GraphAddFile \/ GraphAddEdge

SpecGraph == InitGraph /\ [][NextGraph]_vars

----------------------------------------------------------------------------
(* Specification of module detection: a graph is built by add_file, then
   ModuleDetector::detect runs once on it. *)

PyFile(path) == ParsedFile(path, <<Last(path)[1]>>, <<>>, <<>>, <<>>, 1, 1)

PyFileImporting(path, imports) == [PyFile(path) EXCEPT !.imports = imports]

ImportUser == Import(<<"models", "user">>, "From", 0)

\* Files inside and outside the project root, with absolute and relative paths.
DetectFiles ==
    { PyFileImporting(ProjectRoot \o <<<<"pkg">>, InitPy>>, <<ImportUser>>),
      PyFileImporting(ProjectRoot \o <<<<"pkg">>, <<"main", "py">>>>,
                      <<ImportUser, Import(<<"core", "utils">>, "Direct", 0)>>),
      PyFile(ProjectRoot \o <<<<"core">>, <<"utils", "py">>>>),
      PyFileImporting(<<<<"models">>, <<"user", "py">>>>, <<ImportUser>>),
      PyFileImporting(ProjectRoot \o <<<<"setup", "py">>>>, <<ImportUser>>),
      PyFile(<<RootDir, <<"other">>, <<"x", "py">>>>) }

InitModules ==
    /\ graph = NewGraph /\ pc = "build" /\ ret = NoRet
    /\ modules = <<>> /\ min_files \in 0..MaxMinFiles /\ files_order = <<>>
    /\ AnalyzerIdle /\ ResolverIdle

ModulesAddFile == AddFileFrom(DetectFiles)

ModulesDetect ==
    /\ pc = "build"
    /\ \E order \in Permutation(DOMAIN graph.files) :
          /\ files_order' = order
          /\ modules' = Detect(graph, ProjectRoot, min_files, order)
    /\ pc' = "detected"
    /\ ret' = [op |-> "detect", id |-> -1]
    /\ UNCHANGED <<graph, min_files, analyzerVars, resolverVars>>

\* detector.calculate_coupling(&mut modules, &graph) on the detected modules
ModulesCoupling ==
    /\ pc = "detected"
    /\ modules' = CalculateCoupling(graph, modules)
    /\ pc' = "coupled"
    /\ ret' = [op |-> "calculate_coupling", id |-> -1]
    /\ UNCHANGED <<graph, min_files, files_order, analyzerVars, resolverVars>>

NextModules == ModulesAddFile \/ ModulesDetect \/ ModulesCoupling

SpecModules == InitModules /\ [][NextModules]_vars

----------------------------------------------------------------------------
(* Claims about the code graph *)

\* How often an id is listed by its owners: a function by the functions list of
\* a file or the methods list of a class, a class by the classes list of a file.
FunctionListings(g, f) ==
    Cardinality({<<id, i>> \in (DOMAIN g.files) \X (1..g.next_function_id) :
                    i <= Len(g.files[id].functions) /\ g.files[id].functions[i] = f})
    + Cardinality({<<c, i>> \in (DOMAIN g.classes) \X (1..g.next_function_id) :
                    i <= Len(g.classes[c].methods) /\ g.classes[c].methods[i] = f})

ClassListings(g, c) ==
    Cardinality({<<id, i>> \in (DOMAIN g.files) \X (1..g.next_class_id) :
                    i <= Len(g.files[id].classes) /\ g.files[id].classes[i] = c})

NewIds(old, new) == DOMAIN new \ DOMAIN old

IdsGrowUpwards(old, new) ==
    /\ \A n \in NewIds(old, new) : \A o \in DOMAIN old : n > o
    /\ \A o \in DOMAIN old : o \in DOMAIN new /\ new[o] = old[o]

C3Step ==
    /\ IdsGrowUpwards(graph.files, graph'.files)
    /\ IdsGrowUpwards(graph.classes, graph'.classes)
    /\ IdsGrowUpwards(graph.functions, graph'.functions)
    /\ ret'.op = "add_file" =>
          LET node == graph'.files[ret'.id]
          IN  /\ NewIds(graph.files, graph'.files) = {ret'.id}
              /\ \A c \in DOMAIN graph'.classes : ClassListings(graph', c) = 1
              /\ \A f \in DOMAIN graph'.functions : FunctionListings(graph', f) = 1
              /\ Range(node.classes) = NewIds(graph.classes, graph'.classes)
              /\ Range(node.functions)
                    \cup UNION {Range(graph'.classes[c].methods) : c \in Range(node.classes)}
                 = NewIds(graph.functions, graph'.functions)

\* C3: over any sequence of add_file calls every newly assigned FileId, ClassId
\* and FunctionId is greater than all ids of its kind assigned before, every
\* class and function of the added file gets an id of its own, and no id is
\* handed to a second node or moved to another node.
C3_IdsStrictlyIncreasing == [][C3Step]_vars

C3_Witness ==
    /\ Cardinality(DOMAIN graph.files) >= 2
    /\ Cardinality(DOMAIN graph.classes) >= 3
    /\ Cardinality(DOMAIN graph.functions) >= 4

\* C4: a function names class c as its owner exactly when c lists it as a
\* method; the functions a file lists have no owning class; every listed id is
\* in the graph and carries the FileId of the file that lists it.
C4_OwnershipConsistent ==
    /\ \A f \in DOMAIN graph.functions : \A c \in DOMAIN graph.classes :
          (graph.functions[f].class = Some(c)) <=> (f \in Range(graph.classes[c].methods))
    /\ \A id \in DOMAIN graph.files :
          /\ \A f \in Range(graph.files[id].functions) :
                /\ f \in DOMAIN graph.functions
                /\ graph.functions[f].class = None
                /\ graph.functions[f].file = id
          /\ \A c \in Range(graph.files[id].classes) :
                c \in DOMAIN graph.classes /\ graph.classes[c].file = id
    /\ \A c \in DOMAIN graph.classes :
          \A f \in Range(graph.classes[c].methods) :
             f \in DOMAIN graph.functions /\ graph.functions[f].file = graph.classes[c].file

C4_Witness ==
    /\ Cardinality(DOMAIN graph.files) >= 2
    /\ \E f \in DOMAIN graph.functions : IsSome(graph.functions[f].class)
    /\ \E f \in DOMAIN graph.functions : graph.functions[f].class = None
    /\ \E c \in DOMAIN graph.classes : graph.classes[c].methods = <<>>

\* C5: every edge add_edge stores has both endpoints among the nodes the graph
\* held when the edge was inserted.
C5_EdgeEndpointsPresent ==
    [][\A i \in (Len(graph.edges) + 1)..Len(graph'.edges) :
          HasNode(graph, graph'.edges[i].from) /\ HasNode(graph, graph'.edges[i].to)]_vars

\* The nodes of the map `old` are in the map `new`, as they were.
NodesKept(old, new) == \A id \in DOMAIN old : id \in DOMAIN new /\ new[id] = old[id]

C14Step ==
    /\ ret'.op = "add_edge" =>
          /\ graph' = [graph EXCEPT !.edges = graph'.edges]
          /\ Len(graph'.edges) = Len(graph.edges) + 1
          /\ SubSeq(graph'.edges, 1, Len(graph.edges)) = graph.edges
    /\ ret'.op = "add_file" =>
          /\ NodesKept(graph.files, graph'.files)
          /\ NodesKept(graph.classes, graph'.classes)
          /\ NodesKept(graph.functions, graph'.functions)
          /\ graph'.edges = graph.edges

\* C14: add_edge changes the edge list only, by one edge behind the existing
\* ones (nodes, id counters and both lookup tables stay as they are); add_file
\* leaves every file, class and function node already in the graph, and every
\* edge, as it was.
C14_OnlyEdgesGrow == [][C14Step]_vars

\* An edge added behind another one to a graph that holds class and function
\* nodes.
C14_Witness ==
    /\ ret.op = "add_edge"
    /\ Len(graph.edges) = 2
    /\ graph.edges[1] # graph.edges[2]
    /\ DOMAIN graph.classes # {}
    /\ DOMAIN graph.functions # {}

\* How often x occurs in the sequence s.
Occurrences(s, x) == Cardinality({i \in 1..Len(s) : s[i] = x})

\* C15: for all FileIds a and b, b occurs in imports_of(a) as often as a
\* occurs in imported_by(b), namely once for every Imports edge from File(a)
\* to File(b) in the edge list; no edge of another kind and no edge with a
\* class or function endpoint adds to either result.
C15_ImportsOfMirrorsImportedBy ==
    \A a, b \in 0..MaxFiles :
        /\ Occurrences(ImportsOf(graph, a), b) = Occurrences(graph.edges, EdgeImports(a, b))
        /\ Occurrences(ImportedBy(graph, b), a) = Occurrences(graph.edges, EdgeImports(a, b))

\* The same Imports edge twice; or an Imports edge next to a Calls edge
\* between the same files.
C15_Witness ==
    /\ Len(graph.edges) = 2
    /\ graph.edges[1] = EdgeImports(0, 1)
    /\ graph.edges[2] = Edge(FileNodeId(0), FileNodeId(1), "Calls")
    /\ ImportsOf(graph, 0) = <<1>>
    /\ ImportedBy(graph, 1) = <<0>>

\* What one parsed file adds to the counts: itself, its classes, its top-level
\* functions and the methods of its classes, and its lines.
CountsOf(parsed) ==
    [files |-> 1,
     classes |-> Len(parsed.classes),
     functions |-> Len(parsed.functions)
                   + SumOf([i \in 1..Len(parsed.classes) |-> Len(parsed.classes[i].methods)]),
     edges |-> 0,
     total_lines |-> parsed.total_lines,
     code_lines |-> parsed.code_lines]

NoCounts ==
    [files |-> 0, classes |-> 0, functions |-> 0, edges |-> 0,
     total_lines |-> 0, code_lines |-> 0]

PlusCounts(s, t) == [k \in DOMAIN s |-> s[k] + t[k]]

C16Step ==
    /\ ret'.op = "add_file" =>
          \E parsed \in GraphFiles :
              /\ parsed.path = graph'.files[ret'.id].path
              /\ Stats(graph') = PlusCounts(Stats(graph), CountsOf(parsed))
    /\ ret'.op = "add_edge" =>
          Stats(graph') = PlusCounts(Stats(graph), [NoCounts EXCEPT !.edges = 1])

\* C16: stats() of the new graph is zero throughout; every add_file call adds
\* one file, the classes of the parsed file, its top-level functions plus the
\* methods of its classes, and its total and code lines; every add_edge call
\* adds one edge, a duplicate or a cycle included. So stats() is the sum over
\* the calls made.
C16_StatsCountCalls ==
    /\ [](graph = NewGraph => Stats(graph) = NoCounts)
    /\ [][C16Step]_vars

\* The same edge added twice to a graph holding a file with a class, its two
\* methods and a top-level function.
C16_Witness ==
    /\ ret.op = "add_edge"
    /\ Len(graph.edges) = 2
    /\ graph.edges[1] = graph.edges[2]
    /\ Stats(graph) = [files |-> 1, classes |-> 1, functions |-> 3, edges |-> 2,
                       total_lines |-> 3, code_lines |-> 2]

\* C13 as stated: for every file node of the graph, whatever was added after
\* it, file_by_path of its path and file_by_module of its module name return
\* its FileId, and get_file of that id returns the node with that path and
\* module name.
C13_LookupsReturnAddedFile ==
    \A id \in DOMAIN graph.files :
        LET node == graph.files[id]
        IN  /\ FileByPath(graph, node.path) = Some(id)
            /\ FileByModule(graph, node.module_name) = Some(id)
            /\ GetFile(graph, id) = Some(node)

----------------------------------------------------------------------------
(* Claims about module detection *)

\* How often a FileId is listed over all modules.
ModuleListings(ms, id) ==
    Cardinality({<<m, i>> \in (1..Len(ms)) \X (1..MaxFiles + 1) :
                    i <= Len(ms[m].files) /\ ms[m].files[i] = id})

\* The graph files grouped under the same directory as file id.
SameDirectory(g, id) ==
    {o \in DOMAIN g.files :
        RelativeParent(g.files[o], ProjectRoot) = RelativeParent(g.files[id], ProjectRoot)}

\* C1 as stated: whatever min_files is, every FileId of the graph is listed
\* exactly once over all modules.
C1_PartitionForAnyMinFiles ==
    pc = "detected" => \A id \in DOMAIN graph.files : ModuleListings(modules, id) = 1

\* C1 amended: no FileId is listed twice and only graph files are listed; a
\* file is listed (once) exactly when its directory holds at least min_files
\* files, so the modules partition the files when min_files <= 1.
C1_PartitionUpToMinFiles ==
    pc = "detected" =>
        /\ \A m \in 1..Len(modules) : Range(modules[m].files) \subseteq DOMAIN graph.files
        /\ \A id \in DOMAIN graph.files :
              ModuleListings(modules, id) =
                 IF Cardinality(SameDirectory(graph, id)) >= min_files THEN 1 ELSE 0
        /\ min_files <= 1 =>
              \A id \in DOMAIN graph.files : ModuleListings(modules, id) = 1

C1_Witness ==
    /\ pc = "detected"
    /\ min_files = 1
    /\ Len(modules) >= 2
    /\ Cardinality(DOMAIN graph.files) = 3
    /\ \E m \in 1..Len(modules) : Len(modules[m].files) = 2

\* The directory that holds the file, None for a path without parent.
ContainingDirectory(file_node) == Parent(Join(ProjectRoot, file_node.path))

FilesIn(g, dir) == {id \in DOMAIN g.files : ContainingDirectory(g.files[id]) = Some(dir)}

\* The directories that hold at least min graph files.
DirectoriesHolding(g, min) ==
    {dir \in {Unwrap(ContainingDirectory(g.files[id])) :
                  id \in {i \in DOMAIN g.files : IsSome(ContainingDirectory(g.files[i]))}} :
        Cardinality(FilesIn(g, dir)) >= min}

\* C17: detect returns one module for each directory that holds at least
\* min_files graph files and no other module; the module's path is the
\* directory relative to the project root, and its files are the graph files
\* immediately in that directory, each once.
C17_OneModulePerDirectory ==
    pc = "detected" =>
        /\ Len(modules) = Cardinality(DirectoriesHolding(graph, min_files))
        /\ \A dir \in DirectoriesHolding(graph, min_files) :
              \E m \in 1..Len(modules) :
                  /\ Join(ProjectRoot, modules[m].path) = dir
                  /\ IsPrefix(ProjectRoot, dir) => ProjectRoot \o modules[m].path = dir
                  /\ Range(modules[m].files) = FilesIn(graph, dir)
                  /\ Len(modules[m].files) = Cardinality(FilesIn(graph, dir))

\* Two directories, one with two files and kept, one with a single file and
\* dropped by min_files = 2.
C17_Witness ==
    /\ pc = "detected"
    /\ min_files = 2
    /\ Cardinality(DOMAIN graph.files) = 3
    /\ Cardinality(DirectoriesHolding(graph, 1)) = 2
    /\ Len(modules) = 1
    /\ Len(modules[1].files) = 2

\* The import names the file: its module path with '/' for '.', taken bare,
\* with ".py" appended, or followed by "__init__.py", is the file's path.
ImportNames(import, file_node) ==
    LET pieces == import.module
        bare == [i \in 1..Len(pieces) |-> <<pieces[i]>>]
        source == [i \in 1..Len(pieces) |->
                      IF i = Len(pieces) THEN <<pieces[i], "py">> ELSE <<pieces[i]>>]
        index == bare \o << <<"__init__", "py">> >>
    IN  file_node.path \in {bare, source, index}

\* The other modules holding a file that an import of a file of module m names.
OutgoingModules(m) ==
    {n \in 1..Len(modules) \ {m} :
        \E a \in Range(modules[m].files), b \in Range(modules[n].files) :
            \E i \in 1..Len(graph.files[a].imports) :
                ImportNames(graph.files[a].imports[i], graph.files[b])}

\* C18: after calculate_coupling, outgoing_imports of every module is the
\* number of distinct other modules holding a file named by an import of one
\* of its files, and incoming_imports the number of distinct other modules
\* that count it among those; an import naming a file of the module itself
\* counts for neither.
C18_CouplingCountsDistinctModules ==
    pc = "coupled" =>
        \A m \in 1..Len(modules) :
            /\ modules[m].outgoing_imports = Cardinality(OutgoingModules(m))
            /\ modules[m].incoming_imports =
                  Cardinality({n \in 1..Len(modules) \ {m} : m \in OutgoingModules(n)})

\* Two modules importing a third, one of them from two files, and the third
\* importing itself.
C18_Witness ==
    /\ pc = "coupled"
    /\ Len(modules) = 2
    /\ \E m, n \in 1..2 :
          /\ Len(modules[m].files) = 2
          /\ modules[m].outgoing_imports = 1 /\ modules[m].incoming_imports = 0
          /\ modules[n].outgoing_imports = 0 /\ modules[n].incoming_imports = 1
          /\ ImportNames(ImportUser, graph.files[modules[n].files[1]])

----------------------------------------------------------------------------
(* Specification of module classification: ModuleType::from_name is called
   on a directory name in some spelling, then a graph with one file in a
   directory of that name is built and detect is called on it. *)

Styles == {"lower", "Capitalized", "UPPER"}

SpellWord(w, style) ==
    CASE style = "UPPER" -> UpperCase[w]
      [] style = "Capitalized" -> Capitalized[w]
      [] OTHER -> w

\* The name in the given spelling, piece by piece.
Spell(name, style) == [i \in 1..Len(name) |-> SpellWord(name[i], style)]

\* Directory names in lower case: every word of the tables, and two names
\* with a '.' in them.
LowerNames ==
    {<<w>> : w \in DOMAIN UpperCase} \cup {<<"models", "v2">>, <<"main", "py">>}

\* The directory of the file: the project root itself, or a directory of the
\* spelled name one or two levels below it.
TypedDirectory ==
    CASE rin.depth = 0 -> <<>>
      [] rin.depth = 1 -> <<Spell(rin.name, rin.style)>>
      [] OTHER -> << <<"src">>, Spell(rin.name, rin.style) >>

InitTypes ==
    /\ rin \in [name : LowerNames, style : Styles, depth : 1..2]
                \cup {[name |-> <<"pkg">>, style |-> "lower", depth |-> 0]}
    /\ rout = <<>> /\ resolver = <<>> /\ rprev = <<>>
    /\ pc = "ready"
    /\ graph = NewGraph /\ ret = NoRet
    /\ modules = <<>> /\ min_files = 1 /\ files_order = <<>>
    /\ AnalyzerIdle

\* ModuleType::from_name(name)
TypesFromName ==
    /\ pc = "ready"
    /\ rout' = ModuleTypeFromName(Spell(rin.name, rin.style))
    /\ pc' = "named"
    /\ UNCHANGED <<graph, ret, detectorVars, analyzerVars, rin, resolver, rprev>>

\* graph.add_file of a file in the directory
TypesAddFile ==
    /\ pc = "named"
    /\ LET r == AddFile(graph, PyFile(ProjectRoot \o TypedDirectory \o << <<"main", "py">> >>))
       IN  graph' = r.g /\ ret' = [op |-> "add_file", id |-> r.id]
    /\ pc' = "built"
    /\ UNCHANGED <<detectorVars, analyzerVars, resolverVars>>

\* ModuleDetector::new().detect(&graph, root)
TypesDetect ==
    /\ pc = "built"
    /\ files_order' = <<ret.id>>
    /\ modules' = Detect(graph, ProjectRoot, min_files, files_order')
    /\ pc' = "detected"
    /\ UNCHANGED <<graph, ret, min_files, analyzerVars, resolverVars>>

NextTypes == TypesFromName \/ TypesAddFile \/ TypesDetect

SpecTypes == InitTypes /\ [][NextTypes]_vars

\* The keyword table of the classification, by lower-case name.
KeywordType ==
    [models |-> "Models", schemas |-> "Models", entities |-> "Models", domain
     |-> "Models", views |-> "Views", templates |-> "Views", pages |->
     "Views", ui |-> "Views", services |-> "Services", handlers |->
     "Services", controllers |-> "Services", actions |-> "Services", utils |->
     "Utils", helpers |-> "Utils", lib |-> "Utils", common |-> "Utils", shared
     |-> "Utils", api |-> "Api", routes |-> "Api", endpoints |-> "Api",
     resources |-> "Api", tests |-> "Tests", test |-> "Tests", testing |->
     "Tests", specs |-> "Tests", config |-> "Config", settings |-> "Config",
     conf |-> "Config", configuration |-> "Config", core |-> "Core", main |->
     "Core", app |-> "Core", application |-> "Core"]

TypeOfLowerName(name) ==
    IF Len(name) = 1 /\ name[1] \in DOMAIN KeywordType THEN KeywordType[name[1]]
    ELSE "Generic"

\* C20: from_name maps a name, in whatever case it is spelled, to the type the
\* keyword table gives for its lower-case form, and any other name to
\* Generic; detect gives a module the type of the last component of its
\* directory path (Generic for the project root, whose path has none).
C20_TypeFromKeywordTable ==
    /\ pc \in {"named", "built", "detected"} => rout = TypeOfLowerName(rin.name)
    /\ pc = "detected" =>
          /\ Len(modules) = 1
          /\ modules[1].path = TypedDirectory
          /\ modules[1].module_type =
                IF rin.depth = 0 THEN "Generic" ELSE TypeOfLowerName(rin.name)

\* A directory src/API, classified Api.
C20_Witness ==
    /\ pc = "detected"
    /\ rin = [name |-> <<"api">>, style |-> "UPPER", depth |-> 2]
    /\ rout = "Api"
    /\ modules[1].path = << <<"src">>, <<"API">> >>
    /\ modules[1].module_type = "Api"

----------------------------------------------------------------------------
(* Specification of Module::coupling_score: one call on a module with the
   given counts and number of files. *)

ModuleWith(outgoing, incoming, file_count) ==
    [name |-> <<"pkg">>, path |-> << <<"pkg">> >>,
     files |-> [i \in 1..file_count |-> i - 1],
     is_package |-> FALSE, module_type |-> "Generic",
     outgoing_imports |-> outgoing, incoming_imports |-> incoming]

InitScore ==
    /\ rin \in {ModuleWith(o, i, n) : o \in 0..MaxCount, i \in 0..MaxCount, n \in 0..MaxCount}
    /\ rout = <<>> /\ resolver = <<>> /\ rprev = <<>>
    /\ pc = "ready"
    /\ graph = NewGraph /\ ret = NoRet
    /\ modules = <<>> /\ min_files = 1 /\ files_order = <<>>
    /\ AnalyzerIdle

\* module.coupling_score()
ScoreCall ==
    /\ pc = "ready"
    /\ rout' = CouplingScore(rin)
    /\ pc' = "scored"
    /\ UNCHANGED <<graph, ret, detectorVars, analyzerVars, rin, resolver, rprev>>

NextScore == ScoreCall

SpecScore == InitScore /\ [][NextScore]_vars

(* Exact arithmetic on natural numbers of any size, kept as their binary
   digits, least significant first, for stating what a double is worth. *)

RECURSIVE BinaryOf(_)
BinaryOf(n) == IF n = 0 THEN <<>> ELSE <<n % 2>> \o BinaryOf(n \div 2)

RECURSIVE TimesSmall(_, _, _)
TimesSmall(digits, k, carry) ==
    IF digits = <<>> THEN BinaryOf(carry)
    ELSE LET t == Head(digits) * k + carry
         IN  <<t % 2>> \o TimesSmall(Tail(digits), k, t \div 2)

PlusSmall(digits, k) == TimesSmall(digits, 1, k)

RECURSIVE Trimmed(_)
Trimmed(digits) ==
    IF digits # <<>> /\ Last(digits) = 0 THEN Trimmed(Front(digits)) ELSE digits

RECURSIVE LeqTrimmed(_, _)
LeqTrimmed(a, b) ==
    IF Len(a) # Len(b) THEN Len(a) < Len(b)
    ELSE IF a = <<>> THEN TRUE
    ELSE IF Last(a) # Last(b) THEN Last(a) < Last(b)
    ELSE LeqTrimmed(Front(a), Front(b))

Leq(a, b) == LeqTrimmed(Trimmed(a), Trimmed(b))

Reversed(s) == [i \in 1..Len(s) |-> s[Len(s) + 1 - i]]

\* The double x as a natural number of units 2^(x.exp - 52), and the natural
\* number n in the same units (x.exp <= 52).
SignificandOf(x) == Reversed(x.mantissa)

InUnitsOf(x, n) == [i \in 1..(MantissaBits - 1 - x.exp) |-> 0] \o BinaryOf(n)

TotalImports(module) == module.outgoing_imports + module.incoming_imports

\* C19 as stated: the score of a module without files is 0, and otherwise
\* the exact quotient: the score times the number of files is
\* outgoing_imports + incoming_imports.
C19_ScoreIsExactQuotient ==
    pc = "scored" =>
        IF rin.files = <<>> THEN rout = F64Zero
        ELSE Trimmed(TimesSmall(SignificandOf(rout), Len(rin.files), 0))
               = Trimmed(InUnitsOf(rout, TotalImports(rin)))

\* The odd part of n: n without its factors 2.
RECURSIVE OddPart(_)
OddPart(n) == IF n % 2 = 0 /\ n > 0 THEN OddPart(n \div 2) ELSE n

\* C19 amended: the score of a module without files is 0; otherwise it is the
\* double nearest to the quotient (the score times the number of files is
\* within half a unit in the last place, times the number of files, of
\* outgoing_imports + incoming_imports), and it is the exact quotient exactly
\* when the odd part of the number of files divides the sum of the counts.
C19_ScoreIsNearestDouble ==
    pc = "scored" =>
        IF rin.files = <<>> THEN rout = F64Zero
        ELSE LET count == Len(rin.files)
                 twice_product == TimesSmall(SignificandOf(rout), 2 * count, 0)
                 twice_total == TimesSmall(InUnitsOf(rout, TotalImports(rin)), 2, 0)
             IN  /\ Leq(twice_total, PlusSmall(twice_product, count))
                 /\ Leq(twice_product, PlusSmall(twice_total, count))
                 /\ (TotalImports(rin) # 0 => rout.mantissa[1] = 1)
                 /\ (Trimmed(twice_product) = Trimmed(twice_total))
                      <=> (TotalImports(rin) % OddPart(count) = 0)

\* outgoing = 4, incoming = 2, two files: exactly 3 = 1.1 (binary) * 2^1.
C19_Witness ==
    /\ pc = "scored"
    /\ rin = ModuleWith(4, 2, 2)
    /\ rout = [exp |-> 1, mantissa |-> [i \in 1..MantissaBits |-> IF i <= 2 THEN 1 ELSE 0]]

----------------------------------------------------------------------------
(* Specification of import resolution: one call of ImportResolver::resolve
   on a resolver rooted at ProjectRoot, for each import, importing file, disk
   content and third-party set of the bounded sets below. *)

\* The files that may be on disk.
DiskCandidates ==
    { ProjectRoot \o <<<<"utils", "py">>>>,
      ProjectRoot \o <<<<"os", "py">>>>,
      ProjectRoot \o <<<<"pkg">>, InitPy>>,
      ProjectRoot \o <<<<"pkg">>, <<"utils", "py">>>>,
      ProjectRoot \o <<<<"pkg">>, <<"sub">>, <<"utils", "py">>>>,
      <<RootDir, <<"utils", "py">>>> }

\* The importing files: in the root, one and two directories below it.
CurrentFiles ==
    { ProjectRoot \o <<<<"main", "py">>>>,
      ProjectRoot \o <<<<"pkg">>, <<"main", "py">>>>,
      ProjectRoot \o <<<<"pkg">>, <<"sub">>, <<"main", "py">>>> }

ImportModules ==
    { <<"">>, <<"utils">>, <<"pkg">>, <<"pkg", "utils">>, <<"os">>, <<"requests">> }

Imports ==
    {Import(m, k, 0) : m \in ImportModules \ {<<"">>}, k \in {"Direct", "From"}}
    \cup {Import(m, "Relative", l) : m \in ImportModules, l \in 1..MaxLevel}

ThirdPartySets == { {}, {"requests"}, {"pkg"}, {"os", "utils"} }

InitResolve ==
    /\ rin \in [import : Imports, current_file : CurrentFiles,
                fs : SUBSET DiskCandidates, third_party : ThirdPartySets]
    /\ rout = <<>> /\ resolver = <<>> /\ rprev = <<>>
    /\ pc = "ready"
    /\ graph = NewGraph /\ ret = NoRet
    /\ modules = <<>> /\ min_files = 1 /\ files_order = <<>>
    /\ AnalyzerIdle

ResolveCall ==
    /\ pc = "ready"
    /\ rout' = Resolve(NewResolver(ProjectRoot, rin.third_party), rin.fs,
                       rin.import, rin.current_file)
    /\ pc' = "resolved"
    /\ UNCHANGED <<graph, ret, detectorVars, analyzerVars, rin, resolver, rprev>>

NextResolve == ResolveCall

SpecResolve == InitResolve /\ [][NextResolve]_vars

----------------------------------------------------------------------------
(* Claims about import resolution *)

\* C6 as stated: an import whose top-level name (for a relative import, that of
\* its absolute module path) is in neither the standard-library nor the
\* third-party set and for which no local file is found is classified
\* ThirdParty, never Unknown.
C6_NotFoundIsThirdParty ==
    pc = "resolved" =>
        LET r == NewResolver(ProjectRoot, rin.third_party)
        IN  (/\ ~IsStdlib(r, rout.resolved_module)
             /\ ~IsThirdParty(r, rout.resolved_module)
             /\ ~IsSome(rout.resolved_path))
            => rout.import_type = "ThirdParty"

\* The directory L-1 levels above the importing file's directory, relative to
\* the project root.
AncestorBelowRoot(current_file, level) ==
    LET dir == Front(current_file)
        up == SubSeq(dir, 1, Len(dir) - (level - 1))
    IN  SubSeq(up, Len(ProjectRoot) + 1, Len(up))

\* C8: a relative import of level L >= 1 from a file whose directory lies at
\* least L-1 levels below the project root is resolved against the directory
\* L-1 parents up: resolved_module is that directory's dotted path joined with
\* the module fragment, and the file found, if any, is the fragment's .py file
\* or package index below that directory.
C8_RelativeLevelArithmetic ==
    (/\ pc = "resolved"
     /\ rin.import.kind = "Relative"
     /\ rin.import.level >= 1
     /\ Len(Front(rin.current_file)) - Len(ProjectRoot) >= rin.import.level - 1)
    =>
    LET rel == AncestorBelowRoot(rin.current_file, rin.import.level)
        frag == rin.import.module
        target == ProjectRoot \o rel
                    \o (IF frag = <<"">> THEN <<>> ELSE [i \in 1..Len(frag) |-> <<frag[i]>>])
        as_file == Front(target) \o <<Last(target) \o <<"py">>>>
        as_package == target \o <<InitPy>>
    IN  /\ rout.resolved_module =
              (IF frag = <<"">> THEN JoinDot(rel)
               ELSE IF rel = <<>> THEN frag ELSE Concat(rel) \o frag)
        /\ IsSome(rout.resolved_path) => Unwrap(rout.resolved_path) \in {as_file, as_package}
        /\ IsSome(rout.resolved_path) <=> (Exists(rin.fs, as_file) \/ Exists(rin.fs, as_package))

C8_Witness ==
    /\ pc = "resolved"
    /\ rin.import.kind = "Relative"
    /\ rin.import.level = 2
    /\ rin.current_file = ProjectRoot \o <<<<"pkg">>, <<"sub">>, <<"main", "py">>>>
    /\ rout.import_type = "Local"
    /\ rout.resolved_module = <<"pkg", "utils">>

C11_StdlibThenThirdPartyBeforeLocal ==
    (pc = "resolved" /\ rin.import.kind # "Relative") =>
        LET top_level == rin.import.module[1]
        IN  /\ top_level \in StdlibModules =>
                  rout.import_type = "Stdlib" /\ rout.resolved_path = None
            /\ (top_level \notin StdlibModules /\ top_level \in rin.third_party) =>
                  rout.import_type = "ThirdParty" /\ rout.resolved_path = None
            /\ rout.import_type = "Local" =>
                  top_level \notin StdlibModules \cup rin.third_party

\* A third-party import for which a local file exists.
C11_Witness ==
    /\ pc = "resolved"
    /\ rin.import = Import(<<"pkg", "utils">>, "Direct", 0)
    /\ rin.third_party = {"pkg"}
    /\ ProjectRoot \o <<<<"pkg">>, <<"utils", "py">>>> \in rin.fs
    /\ rout.import_type = "ThirdParty"
    /\ rout.resolved_path = None

----------------------------------------------------------------------------
(* Specification of repeated resolution: resolve, or resolve_all, is called
   twice on one resolver with the same imports and importing file, the files
   on disk staying as they are. *)

BatchImports ==
    { Import(<<"os">>, "Direct", 0), Import(<<"utils">>, "Direct", 0),
      Import(<<"pkg", "utils">>, "From", 0), Import(<<"requests">>, "Direct", 0),
      Import(<<"utils">>, "Relative", 1), Import(<<"">>, "Relative", 2) }

ImportLists == UNION {[1..n -> BatchImports] : n \in 1..MaxImports}

BatchDisks ==
    SUBSET { ProjectRoot \o <<<<"utils", "py">>>>,
             ProjectRoot \o <<<<"pkg">>, InitPy>>,
             ProjectRoot \o <<<<"pkg">>, <<"utils", "py">>>> }

InitResolveAll ==
    /\ rin \in [op : {"resolve", "resolve_all"}, imports : ImportLists,
                current_file : CurrentFiles, fs : BatchDisks,
                third_party : ThirdPartySets]
    /\ resolver = NewResolver(ProjectRoot, rin.third_party)
    /\ rout = <<>> /\ rprev = <<>>
    /\ pc = "ready"
    /\ graph = NewGraph /\ ret = NoRet
    /\ modules = <<>> /\ min_files = 1 /\ files_order = <<>>
    /\ AnalyzerIdle

NextCall == IF pc = "ready" THEN "once" ELSE "twice"

\* resolver.resolve(&imports[0], current_file)
ResolveOnce ==
    /\ pc \in {"ready", "once"}
    /\ rin.op = "resolve"
    /\ rprev' = rout
    /\ rout' = Resolve(resolver, rin.fs, Head(rin.imports), rin.current_file)
    /\ resolver' = SelfAfterResolve(resolver, <<Head(rin.imports)>>)
    /\ pc' = NextCall
    /\ UNCHANGED <<graph, ret, detectorVars, analyzerVars, rin>>

\* resolver.resolve_all(&imports, current_file)
ResolveAllCall ==
    /\ pc \in {"ready", "once"}
    /\ rin.op = "resolve_all"
    /\ rprev' = rout
    /\ rout' = ResolveAll(resolver, rin.fs, rin.imports, rin.current_file)
    /\ resolver' = SelfAfterResolve(resolver, rin.imports)
    /\ pc' = NextCall
    /\ UNCHANGED <<graph, ret, detectorVars, analyzerVars, rin>>

NextResolveAll == ResolveOnce \/ ResolveAllCall

SpecResolveAll == InitResolveAll /\ [][NextResolveAll]_vars

----------------------------------------------------------------------------
(* Analyzer: src/analysis/mod.rs *)

\* Language::from_extension
LanguageFromExtension(ext) ==
    CASE ext = "py" -> Some("Python")
      [] ext \in {"js", "jsx", "mjs", "cjs"} -> Some("JavaScript")
      [] ext \in {"ts", "tsx", "mts", "cts"} -> Some("TypeScript")
      [] ext = "rs" -> Some("Rust")
      [] ext = "go" -> Some("Go")
      [] OTHER -> None

\* Language::is_supported
IsSupported(ext) == IsSome(LanguageFromExtension(ext))

\* should_exclude, lines 220-235 under Config::default(): the first component
\* names of the model that start with the prefix of an exclude pattern
\* ("tests/**", "test/**", "venv/**", ...)
ExcludedPrefixNames == { <<"tests">>, <<"venv">> }

\* should_exclude, lines 238-243: the component names of the model that contain
\* a default exclusion ("__pycache__", ".git", "venv", "node_modules", ...)
ExcludedAnywhereNames == { <<"venv">>, <<"__pycache__">>, <<"node_modules">> }

\* Analyzer::should_exclude
ShouldExclude(path, root) ==
    LET stripped == StripPrefix(path, root)
        relative == IF IsSome(stripped) THEN Unwrap(stripped) ELSE path
    IN  \/ relative # <<>> /\ Head(relative) \in ExcludedPrefixNames
        \/ \E i \in 1..Len(relative) : relative[i] \in ExcludedAnywhereNames

\* Analyzer::discover_files: the supported, not excluded files below root, sorted
DiscoverFiles(files, root) ==
    SortPaths({f.path : f \in {e \in files :
        /\ IsPrefix(root, e.path)
        /\ ~e.is_dir
        /\ IsSome(Extension(e.path))
        /\ IsSupported(Unwrap(Extension(e.path)))
        /\ ~ShouldExclude(e.path, root)}})

\* python.rs, path_to_module_name: the name the parser gives, which
\* parse_and_build_graph overwrites
ParserModuleName(path) ==
    LET name == Last(path)
        stem == IF HasExtension(name) THEN Front(name) ELSE name
    IN  IF stem = <<"__init__">> /\ Len(path) > 1 /\ path[Len(path) - 1] # RootDir
        THEN path[Len(path) - 1]
        ELSE stem

\* PythonParser::parse_file: Err when the file cannot be read or parsed,
\* otherwise the ParsedFile of its content
ParseFile(files, path) ==
    LET entry == CHOOSE e \in files : e.path = path
    IN  IF entry.outcome # "ok" THEN [ok |-> FALSE, error |-> entry.outcome]
        ELSE [ok |-> TRUE,
              parsed |-> ParsedFile(path, ParserModuleName(path), entry.classes,
                                    entry.functions, entry.imports,
                                    entry.total_lines, entry.code_lines)]

\* path_to_module_name, lines 319-328: the supported extension is trimmed off
\* the last part (trim_end_matches removes every repetition of it)
RECURSIVE TrimExtension(_)
TrimExtension(name) ==
    IF Len(name) > 1 /\ IsSupported(Last(name))
    THEN LET cut == Front(name)
         IN  IF Len(cut) > 1 /\ Last(cut) = Last(name) THEN TrimExtension(cut) ELSE cut
    ELSE name

\* path_to_module_name, lines 331-354: the names of the index files of a
\* language
IndexNames(language) ==
    CASE language = Some("Python") -> { <<"__init__">> }
      [] language \in {Some("JavaScript"), Some("TypeScript")} -> { <<"index">> }
      [] language = Some("Rust") -> { <<"mod">>, <<"lib">> }
      [] OTHER -> {}

\* path_to_module_name, lines 357-361: the separator of a language
Separator(language) ==
    CASE language = Some("Rust") -> "::"
      [] language \in {Some("JavaScript"), Some("TypeScript"), Some("Go")} -> "/"
      [] OTHER -> "."

\* parts.join(sep) for a separator other than '.': the last piece of a part,
\* the separator and the first piece of the next part make one piece
RECURSIVE JoinWith(_, _)
JoinWith(parts, sep) ==
    IF parts = <<>> THEN <<"">>
    ELSE IF Len(parts) = 1 THEN parts[1]
    ELSE LET rest == JoinWith(Tail(parts), sep)
             first == Head(parts)
         IN  Front(first) \o <<Last(first) \o sep \o Head(rest)>> \o Tail(rest)

\* Analyzer::path_to_module_name
AnalyzerPathToModuleName(path, root, language) ==
    LET stripped == StripPrefix(path, root)
        relative == IF IsSome(stripped) THEN Unwrap(stripped) ELSE path
        parts == IF relative = <<>> THEN <<>>
                 ELSE Front(relative) \o <<TrimExtension(Last(relative))>>
        kept == IF parts # <<>> /\ Last(parts) \in IndexNames(language) THEN Front(parts)
                ELSE parts
    IN  IF Separator(language) = "." THEN JoinDot(kept)
        ELSE JoinWith(kept, Separator(language))

\* A faulty loop body that drops a failed file without recording it.
ParseAndAddUnrecorded(g, errors, files, path, root) ==
    LET result == ParseFile(files, path)
    IN  IF result.ok
        THEN [graph |-> AddFile(g, [result.parsed EXCEPT
                                       !.module_name =
                                           AnalyzerPathToModuleName(path, root, Some("Python"))]).g,
              errors |-> errors]
        ELSE [graph |-> g, errors |-> errors]

\* A faulty loop body in which a failed file uses up a FileId.
ParseAndAddConsumingId(g, errors, files, path, root) ==
    LET result == ParseFile(files, path)
    IN  IF result.ok
        THEN [graph |-> AddFile(g, [result.parsed EXCEPT
                                       !.module_name =
                                           AnalyzerPathToModuleName(path, root, Some("Python"))]).g,
              errors |-> errors]
        ELSE [graph |-> [g EXCEPT !.next_file_id = @ + 1],
              errors |-> Insert(errors, path, result.error)]

\* parse_and_build_graph, lines 277-299: the loop body for one path
ParseAndAdd(g, errors, files, path, root) ==
    LET ext == IF IsSome(Extension(path)) THEN Unwrap(Extension(path)) ELSE ""
        language == LanguageFromExtension(ext)
        result == ParseFile(files, path)
    IN  IF ~IsSome(language) THEN [graph |-> g, errors |-> errors]
        ELSE IF result.ok
        THEN [graph |-> AddFile(g, [result.parsed EXCEPT
                                       !.module_name =
                                           AnalyzerPathToModuleName(path, root, language)]).g,
              errors |-> errors]
        ELSE [graph |-> g, errors |-> Insert(errors, path, result.error)]

\* resolve_imports, lines 368-371: module name -> FileId, collected in
\* iteration order, a later file replacing an earlier one of the same name
RECURSIVE ModuleMap(_, _)
ModuleMap(g, order) ==
    IF order = <<>> THEN EmptyMap
    ELSE Insert(ModuleMap(g, Front(order)), g.files[Last(order)].module_name, Last(order))

\* resolve_imports, lines 383-401: the module name looked up for a local import
TargetModuleName(file_node, import) ==
    IF import.kind = "Relative"
    THEN LET parts == file_node.module_name
         IN  IF Len(parts) >= import.level
             THEN LET base == SubSeq(parts, 1, Len(parts) - import.level)
                      joined == IF base = <<>> THEN <<"">> ELSE base
                  IN  IF import.module = <<"">> THEN joined ELSE joined \o import.module
             ELSE import.module
    ELSE import.module

\* A faulty collection that also keeps the edge of a file to itself.
RECURSIVE EdgesOfImportsWithSelf(_, _, _, _, _, _)
EdgesOfImportsWithSelf(g, r, fs, module_map, file_id, imports) ==
    IF imports = <<>> THEN <<>>
    ELSE LET import == Head(imports)
             file_node == g.files[file_id]
             resolved == Resolve(r, fs, import, file_node.path)
             name == TargetModuleName(file_node, import)
             edge == IF resolved.import_type = "Local" /\ name \in DOMAIN module_map
                     THEN <<EdgeImports(file_id, module_map[name])>>
                     ELSE <<>>
         IN  edge \o EdgesOfImportsWithSelf(g, r, fs, module_map, file_id, Tail(imports))

\* resolve_imports, lines 377-409: the edges one file contributes
RECURSIVE EdgesOfImports(_, _, _, _, _, _)
EdgesOfImports(g, r, fs, module_map, file_id, imports) ==
    IF imports = <<>> THEN <<>>
    ELSE LET import == Head(imports)
             file_node == g.files[file_id]
             resolved == Resolve(r, fs, import, file_node.path)
             name == TargetModuleName(file_node, import)
             edge == IF /\ resolved.import_type = "Local"
                        /\ name \in DOMAIN module_map
                        /\ module_map[name] # file_id
                     THEN <<EdgeImports(file_id, module_map[name])>>
                     ELSE <<>>
         IN  edge \o EdgesOfImports(g, r, fs, module_map, file_id, Tail(imports))

\* resolve_imports, lines 376-410: edges_to_add, the files visited in `order`
RECURSIVE EdgesToAdd(_, _, _, _, _)
EdgesToAdd(g, r, fs, module_map, order) ==
    IF order = <<>> THEN <<>>
    ELSE EdgesOfImports(g, r, fs, module_map, Head(order), g.files[Head(order)].imports)
         \o EdgesToAdd(g, r, fs, module_map, Tail(order))

RECURSIVE AddEdges(_, _)
AddEdges(g, edges) ==
    IF edges = <<>> THEN g ELSE AddEdges(AddEdge(g, Head(edges)), Tail(edges))

\* Analyzer::resolve_imports
ResolveImports(g, r, fs, order) ==
    AddEdges(g, EdgesToAdd(g, r, fs, ModuleMap(g, order), order))

\* Path::canonicalize of an absolute path without links: the path itself when
\* it exists (something of the disk lies at or below it) and can be accessed
Canonicalize(files, root) ==
    IF /\ \E e \in files : IsPrefix(root, e.path)
       /\ ~\E e \in files : e.path = root /\ e.outcome = "denied"
    THEN Some(root)
    ELSE None

\* error.rs: the Error values analyze builds, the message as a list of words
ErrorIo == [kind |-> "Io", message |-> <<"Cannot", "access", "path:">>]

ErrorAnalysis == [kind |-> "Analysis", message |-> <<"No", "source", "files", "found">>]

\* error.rs, #[error("..: {0}")]: Error::to_string
ErrorToString(e) ==
    (IF e.kind = "Io" THEN <<"IO", "error:">> ELSE <<"Analysis", "error:">>) \o e.message

Err(e) == [ok |-> FALSE, error |-> e]

Ok(v) == [ok |-> TRUE, value |-> v]

\* A faulty start that goes on with an empty list of source files.
AnalyzeStartLenient(files, root) ==
    LET canonical == Canonicalize(files, root)
    IN  IF ~IsSome(canonical) THEN Err(ErrorIo)
        ELSE Ok(DiscoverFiles(files, Unwrap(canonical)))

\* analyze, lines 117-130: canonicalize, discover_files and the check that
\* something was found
AnalyzeStart(files, root) ==
    LET canonical == Canonicalize(files, root)
    IN  IF ~IsSome(canonical) THEN Err(ErrorIo)
        ELSE LET found == DiscoverFiles(files, Unwrap(canonical))
             IN  IF found = <<>> THEN Err(ErrorAnalysis) ELSE Ok(found)

----------------------------------------------------------------------------
(* Specification of Analyzer::analyze: the analysis of a project on disk,
   one step per stage (and per file while parsing), run twice over the
   unchanged file set. *)

DiskFile(path, imports, classes, functions) ==
    [path |-> path, imports |-> imports, classes |-> classes, functions |-> functions,
     total_lines |-> 2, code_lines |-> 1, outcome |-> "ok", is_dir |-> FALSE]

\* A directory of the disk; outcome "denied" when it cannot be accessed.
DiskDir(path, outcome) ==
    [DiskFile(path, <<>>, <<>>, <<>>) EXCEPT !.is_dir = TRUE, !.outcome = outcome]

DirChain == << <<"src">>, <<"a">>, <<"b">>, <<"c">> >>

\* The three-file Python package of test_analyze_simple_project, `depth`
\* directories below the analysis root.
PackageAt(depth) ==
    LET dir == ProjectRoot \o SubSeq(DirChain, 1, depth)
    IN  { DiskFile(dir \o <<InitPy>>, <<>>, <<>>, <<>>),
          DiskFile(dir \o <<<<"main", "py">>>>, <<Import(<<"utils">>, "Relative", 1)>>,
                   <<>>, <<Fn("main")>>),
          DiskFile(dir \o <<<<"utils", "py">>>>, <<>>, <<>>, <<Fn("helper")>>) }

\* A project with a package, a script importing it, a test directory that the
\* default configuration excludes and a file that is no source file.
MixedProject ==
    { DiskFile(ProjectRoot \o <<<<"pkg">>, InitPy>>,
               <<Import(<<"">>, "Relative", 1)>>, <<>>, <<>>),
      DiskFile(ProjectRoot \o <<<<"pkg">>, <<"main", "py">>>>,
               <<Import(<<"utils">>, "Relative", 1), Import(<<"os">>, "Direct", 0)>>,
               <<Class("A", <<Fn("m1")>>)>>, <<Fn("main")>>),
      DiskFile(ProjectRoot \o <<<<"pkg">>, <<"utils", "py">>>>,
               <<Import(<<"pkg", "utils">>, "Direct", 0)>>, <<>>, <<Fn("helper")>>),
      DiskFile(ProjectRoot \o <<<<"setup", "py">>>>,
               <<Import(<<"pkg", "utils">>, "Direct", 0), Import(<<"pkg", "main">>, "From", 0)>>,
               <<>>, <<>>),
      DiskFile(ProjectRoot \o <<<<"tests">>, <<"x", "py">>>>, <<>>, <<>>, <<>>),
      DiskFile(ProjectRoot \o <<<<"notes", "txt">>>>, <<>>, <<>>, <<>>) }

NoSourceProject == { DiskFile(ProjectRoot \o <<<<"notes", "txt">>>>, <<>>, <<>>, <<>>) }

\* A package with a sub-package of its own; both hold a module utils, and the
\* sub-package's __init__.py imports its sibling.
NestedProject ==
    { DiskFile(ProjectRoot \o <<<<"pkg">>, InitPy>>, <<>>, <<>>, <<>>),
      DiskFile(ProjectRoot \o <<<<"pkg">>, <<"utils", "py">>>>,
               <<Import(<<"pkg", "core", "utils">>, "From", 0)>>, <<>>, <<Fn("helper")>>),
      DiskFile(ProjectRoot \o <<<<"pkg">>, <<"core">>, InitPy>>,
               <<Import(<<"utils">>, "Relative", 1)>>, <<>>, <<>>),
      DiskFile(ProjectRoot \o <<<<"pkg">>, <<"core">>, <<"utils", "py">>>>,
               <<>>, <<>>, <<Fn("helper")>>) }

\* An empty directory (test_analyze_empty_directory).
EmptyProject == { DiskDir(ProjectRoot, "ok") }

\* Only excluded and unsupported files.
FilteredProject ==
    { DiskFile(ProjectRoot \o <<<<"tests">>, <<"x", "py">>>>, <<>>, <<>>, <<>>),
      DiskFile(ProjectRoot \o <<<<"notes", "txt">>>>, <<>>, <<>>, <<>>) }

\* No /proj on the disk (test_analyze_nonexistent_path).
MissingRootProject ==
    { DiskFile(<<RootDir, <<"src">>, <<"main", "py">>>>, <<>>, <<>>, <<Fn("main")>>) }

\* /proj holds a source file and cannot be accessed.
DeniedRootProject ==
    { DiskDir(ProjectRoot, "denied"),
      DiskFile(ProjectRoot \o <<<<"main", "py">>>>, <<>>, <<>>, <<Fn("main")>>) }

Projects ==
    {PackageAt(d) : d \in 0..MaxDepth}
    \cup {MixedProject, NestedProject, NoSourceProject, EmptyProject, FilteredProject,
          MissingRootProject, DeniedRootProject}

Outcomes == {"ok", "read_error", "parse_error"}

\* The project with each discovered file readable and parsable, or not.
WithOutcomes(project, outcome) ==
    {[f EXCEPT !.outcome = outcome[f.path]] : f \in project}

InitAnalyze ==
    /\ \E project \in Projects :
          LET found == Range(DiscoverFiles(project, ProjectRoot))
          IN  \E outcome \in [{f.path : f \in project} -> Outcomes \cup {"denied"}] :
                 /\ \A f \in project :
                       IF f.path \in found THEN outcome[f.path] \in Outcomes
                       ELSE outcome[f.path] = f.outcome
                 /\ disk = WithOutcomes(project, outcome)
    /\ pc = "start" /\ run = 1 /\ prev = <<>>
    /\ graph = NewGraph /\ source_files = <<>> /\ parse_errors = EmptyMap /\ idx = 0
    /\ ret = NoRet /\ modules = <<>> /\ min_files = 1 /\ files_order = <<>>
    /\ ResolverIdle

\* analyze, lines 117-130: the root is canonicalized and the files are
\* discovered; an Err is returned at once
AnalyzeDiscover ==
    /\ pc = "start"
    /\ LET started == AnalyzeStart(disk, ProjectRoot)
       IN  IF started.ok
           THEN /\ source_files' = started.value
                /\ idx' = 1
                /\ pc' = "parse"
                /\ ret' = ret
           ELSE /\ ret' = [op |-> "analyze", id |-> -1, result |-> started]
                /\ pc' = "failed"
                /\ UNCHANGED <<source_files, idx>>
    /\ UNCHANGED <<graph, detectorVars, disk, parse_errors, run, prev, resolverVars>>

\* parse_and_build_graph: one iteration of the loop over the files
AnalyzeParse ==
    /\ pc = "parse" /\ idx <= Len(source_files)
    /\ LET r == ParseAndAdd(graph, parse_errors, disk, source_files[idx], ProjectRoot)
       IN  graph' = r.graph /\ parse_errors' = r.errors
    /\ idx' = idx + 1
    /\ pc' = IF idx = Len(source_files) THEN "resolve" ELSE "parse"
    /\ UNCHANGED <<ret, detectorVars, disk, source_files, run, prev, resolverVars>>

\* analyze, lines 135-138: resolve_imports, the graph's files iterating in
\* some order
AnalyzeResolve ==
    /\ pc = "resolve"
    /\ \E order \in Permutation(DOMAIN graph.files) :
          /\ files_order' = order
          /\ graph' = ResolveImports(graph, NewResolver(ProjectRoot, {}),
                                     {f.path : f \in disk}, order)
    /\ pc' = "detect"
    /\ UNCHANGED <<ret, modules, min_files, analyzerVars, resolverVars>>

\* analyze, lines 141-142: ModuleDetector::new().detect, iterating the
\* unchanged map in the same order
AnalyzeDetect ==
    /\ pc = "detect"
    /\ modules' = Detect(graph, ProjectRoot, min_files, files_order)
    /\ pc' = "done"
    /\ ret' = [op |-> "analyze", id |-> -1,
               result |-> Ok([graph |-> graph, modules |-> modules',
                              parse_errors |-> parse_errors])]
    /\ UNCHANGED <<graph, min_files, files_order, analyzerVars, resolverVars>>

AnalysisResult == [graph |-> graph, modules |-> modules, parse_errors |-> parse_errors]

\* A second analyze over the same files.
AnalyzeAgain ==
    /\ pc = "done" /\ run = 1
    /\ prev' = AnalysisResult
    /\ run' = 2
    /\ pc' = "start"
    /\ graph' = NewGraph /\ source_files' = <<>> /\ parse_errors' = EmptyMap /\ idx' = 0
    /\ modules' = <<>> /\ files_order' = <<>> /\ ret' = NoRet
    /\ UNCHANGED <<min_files, disk, resolverVars>>

NextAnalyze ==
    AnalyzeDiscover \/ AnalyzeParse \/ AnalyzeResolve \/ AnalyzeDetect \/ AnalyzeAgain

SpecAnalyze == InitAnalyze /\ [][NextAnalyze]_vars

----------------------------------------------------------------------------
(* Claims about the analysis of a project *)

\* The number of files of source_files that the parsing loop has gone through.
Processed ==
    CASE pc = "parse" -> idx - 1
      [] pc \in {"resolve", "detect", "done"} -> Len(source_files)
      [] OTHER -> 0

FileIdsOfPath(path) == {id \in DOMAIN graph.files : graph.files[id].path = path}

InGraphOnce(path) == Cardinality(FileIdsOfPath(path)) = 1

InParseErrors(path) == path \in DOMAIN parse_errors

\* C2: every discovered source file that the parsing loop has gone through is
\* either exactly one file node of the graph or a key of parse_errors, never
\* both and never neither; the graph and parse_errors hold nothing else; and
\* when analyze has succeeded, stats().files is the number of discovered files
\* minus the number of parse errors. A failed file therefore never keeps a
\* later file of the sorted list from being processed.
C2_EveryFileInGraphOrErrors ==
    /\ \A i \in 1..Processed :
          /\ InGraphOnce(source_files[i]) \/ InParseErrors(source_files[i])
          /\ ~(FileIdsOfPath(source_files[i]) # {} /\ InParseErrors(source_files[i]))
    /\ \A id \in DOMAIN graph.files :
          \E i \in 1..Processed : source_files[i] = graph.files[id].path
    /\ \A path \in DOMAIN parse_errors : \E i \in 1..Processed : source_files[i] = path
    /\ pc = "done" =>
          Stats(graph).files = Len(source_files) - Cardinality(DOMAIN parse_errors)

\* An analysis that succeeded although a file failed, with a file after the
\* failed one in the graph.
C2_Witness ==
    /\ pc = "done"
    /\ \E i, j \in 1..Len(source_files) :
          /\ i < j
          /\ InParseErrors(source_files[i])
          /\ InGraphOnce(source_files[j])
    /\ Stats(graph).files = 2
    /\ Cardinality(DOMAIN parse_errors) >= 1

IsThreeFilePackage == \E d \in 0..MaxDepth : disk = PackageAt(d)

FileIdNamed(name) == CHOOSE id \in DOMAIN graph.files : Last(graph.files[id].path) = name

\* C7: the analysis of the three-file package (main with a level-1 relative
\* import of its sibling utils, utils with one function, __init__.py), placed
\* at the analysis root or any number of directories below it, yields three
\* files, exactly one Imports edge, from main to utils, and exactly one module,
\* which holds the three files and is a package.
C7_ThreeFilePackageAnywhere ==
    (pc = "done" /\ IsThreeFilePackage) =>
        /\ Stats(graph).files = 3
        /\ graph.edges = <<EdgeImports(FileIdNamed(<<"main", "py">>),
                                       FileIdNamed(<<"utils", "py">>))>>
        /\ Len(modules) = 1
        /\ Range(modules[1].files) = DOMAIN graph.files
        /\ Len(modules[1].files) = 3
        /\ modules[1].is_package

\* C9: the second analysis of an unchanged file set ends with the result of
\* the first: the same graph (file ids, nodes and the sequence of edges), the
\* same modules (with their files in the same order) and the same parse errors.
C9_RunsProduceSameResult ==
    (run = 2 /\ pc = "done") => prev = AnalysisResult

----------------------------------------------------------------------------
(* Claims about the errors of Analyzer::analyze *)

\* `sub` occurs in `s` as a run of consecutive words.
Contains(s, sub) ==
    \E i \in 1..(Len(s) - Len(sub) + 1) : SubSeq(s, i, i + Len(sub) - 1) = sub

RootMissingOrInaccessible == ~IsSome(Canonicalize(disk, ProjectRoot))

NothingDiscovered == DiscoverFiles(disk, ProjectRoot) = <<>>

AnalyzeReturned == pc \in {"failed", "done"}

\* C21: analyze returns an error, and no AnalysisResult, when the root path is
\* missing or cannot be accessed, and when the discovery finds no source file
\* after filtering; the message of the latter contains "No source files". In
\* both cases nothing was parsed and no graph was built: the error is returned
\* from the start of analyze. In every other case, whichever files fail to be
\* read or parsed, analyze never returns an error and ends with an
\* AnalysisResult.
C21_FatalPreconditionsFailFast ==
    /\ (AnalyzeReturned /\ RootMissingOrInaccessible) =>
          /\ pc = "failed" /\ ~ret.result.ok
          /\ ret.result.error.kind = "Io"
    /\ (AnalyzeReturned /\ ~RootMissingOrInaccessible /\ NothingDiscovered) =>
          /\ pc = "failed" /\ ~ret.result.ok
          /\ Contains(ErrorToString(ret.result.error), <<"No", "source", "files">>)
    /\ pc = "failed" =>
          /\ graph = NewGraph /\ parse_errors = EmptyMap /\ modules = <<>>
          /\ source_files = <<>> /\ idx = 0
    /\ (~RootMissingOrInaccessible /\ ~NothingDiscovered) =>
          /\ pc # "failed"
          /\ pc = "done" => ret.result.ok
          /\ Processed <= Len(source_files)
    /\ (pc = "parse" \/ pc = "resolve") =>
          ~RootMissingOrInaccessible /\ ~NothingDiscovered

\* An analysis stopped by a root that cannot be accessed although it holds a
\* source file.
C21_Witness ==
    /\ pc = "failed"
    /\ RootMissingOrInaccessible
    /\ \E e \in disk : e.path = ProjectRoot /\ e.outcome = "denied"
    /\ ret.result.error = ErrorIo

\* An analysis stopped because only excluded and unsupported files were found.
C21_WitnessNoSourceFiles ==
    /\ pc = "failed"
    /\ disk = FilteredProject
    /\ ret.result.error = ErrorAnalysis

\* An analysis that succeeded although every file failed to parse.
C21_WitnessAllFilesFail ==
    /\ pc = "done"
    /\ ret.result.ok
    /\ graph.files = EmptyMap
    /\ Cardinality(DOMAIN parse_errors) = Len(source_files)
    /\ Len(source_files) >= 3

----------------------------------------------------------------------------
(* Language adapters: src/parser/{python,javascript,rust,go}.rs. A source
   text reaches parse_source as the tree tree-sitter made of it: the list of
   the root's children. A name is the list of its characters. *)

\* A node of the syntax tree: `subject` is the type of an impl block or the
\* receiver type of a method, `members` the functions of a body (or the names
\* of a const/var specification), `children` the child nodes of a statement.
Node(kind, name, subject, trait, members, children) ==
    [kind |-> kind, name |-> name, subject |-> subject, trait |-> trait,
     members |-> members, children |-> children]

Leaf(kind, text) == [kind |-> kind, text |-> text]

UpperLetters ==
    {"A", "B", "C", "D", "E", "F", "G", "H", "I", "J", "K", "L", "M",
     "N", "O", "P", "Q", "R", "S", "T", "U", "V", "W", "X", "Y", "Z"}

Digits == {"0", "1", "2", "3", "4", "5", "6", "7", "8", "9"}

\* python.rs, line 797: n.chars().all(|c| c.is_uppercase() || c == '_' || c.is_ascii_digit())
IsAllCaps(n) == \A i \in 1..Len(n) : n[i] \in UpperLetters \cup {"_"} \cup Digits

\* ParsedFile::new and the fields the adapters fill
ParsedSource(classes, functions, constants) ==
    [path |-> <<<<"test", "rs">>>>, module_name |-> <<"test">>,
     classes |-> classes, functions |-> functions, constants |-> constants,
     imports |-> <<>>, total_lines |-> 0, code_lines |-> 0]

EmptyParsed == ParsedSource(<<>>, <<>>, <<>>)

Push(file, field, values) == [file EXCEPT ![field] = @ \o values]

\* rust.rs, parse_impl: the functions of the body, each named Type::name or
\* Type::Trait::name
ParseImpl(node) ==
    LET prefix == IF IsSome(node.trait)
                  THEN node.subject \o <<":", ":">> \o Unwrap(node.trait)
                  ELSE node.subject
    IN  [i \in 1..Len(node.members) |-> Fn(prefix \o <<":", ":">> \o node.members[i])]

\* go.rs, parse_method: the function named Receiver.name, a leading '*' of
\* the receiver type trimmed off
RECURSIVE TrimStars(_)
TrimStars(text) == IF text # <<>> /\ Head(text) = "*" THEN TrimStars(Tail(text)) ELSE text

ParseMethod(node) ==
    IF IsSome(node.subject)
    THEN Fn(TrimStars(Unwrap(node.subject)) \o <<".">> \o node.name)
    ELSE Fn(node.name)

\* python.rs, parse_constant, lines 793-811: the name kept from the children
\* of one assignment, the last identifier in capitals
RECURSIVE AssignmentName(_)
AssignmentName(children) ==
    IF children = <<>> THEN None
    ELSE LET inner == Last(children)
         IN  IF inner.kind = "identifier" /\ IsAllCaps(inner.text) THEN Some(inner.text)
             ELSE AssignmentName(Front(children))

\* python.rs, parse_constant: the constant of the first assignment that has a
\* name
RECURSIVE ParseConstant(_)
ParseConstant(children) ==
    IF children = <<>> THEN None
    ELSE LET child == Head(children)
             name == IF child.kind = "assignment" THEN AssignmentName(child.children)
                     ELSE None
         IN  IF IsSome(name) THEN name ELSE ParseConstant(Tail(children))

\* javascript.rs, parse_arrow_function: the function of the first declarator
\* whose value is an arrow function or a function expression
RECURSIVE ParseArrowFunction(_)
ParseArrowFunction(children) ==
    IF children = <<>> THEN None
    ELSE LET child == Head(children)
         IN  IF /\ child.kind = "variable_declarator"
                /\ child.children # <<>>
                /\ child.children[1].kind \in {"arrow_function", "function"}
             THEN Some(Fn(child.name))
             ELSE ParseArrowFunction(Tail(children))

\* RustParser::parse_source, lines 56-100: one child of the root
RustVisit(file, node) ==
    CASE node.kind \in {"struct_item", "enum_item"} ->
            Push(file, "classes", <<Class(node.name, <<>>)>>)
      [] node.kind = "trait_item" ->
            Push(file, "classes",
                 <<Class(node.name, [i \in 1..Len(node.members) |-> Fn(node.members[i])])>>)
      [] node.kind = "impl_item" -> Push(file, "functions", ParseImpl(node))
      [] node.kind = "function_item" -> Push(file, "functions", <<Fn(node.name)>>)
      [] node.kind \in {"const_item", "static_item"} ->
            Push(file, "constants", <<node.name>>)
      [] OTHER -> file

\* GoParser::parse_source, lines 52-98: one child of the root
GoVisit(file, node) ==
    CASE node.kind = "type_declaration" ->
            Push(file, "classes",
                 [i \in 1..Len(node.children) |->
                     Class(node.children[i].name,
                           [k \in 1..Len(node.children[i].members) |->
                               Fn(node.children[i].members[k])])])
      [] node.kind = "function_declaration" -> Push(file, "functions", <<Fn(node.name)>>)
      [] node.kind = "method_declaration" -> Push(file, "functions", <<ParseMethod(node)>>)
      [] node.kind \in {"const_declaration", "var_declaration"} ->
            Push(file, "constants", Concat([i \in 1..Len(node.children) |->
                                               node.children[i].members]))
      [] OTHER -> file

\* PythonParser::parse_source, lines 60-91: one child of the root
PythonVisit(file, node) ==
    CASE node.kind = "class_definition" ->
            Push(file, "classes",
                 <<Class(node.name, [i \in 1..Len(node.members) |-> Fn(node.members[i])])>>)
      [] node.kind = "function_definition" -> Push(file, "functions", <<Fn(node.name)>>)
      [] node.kind = "expression_statement" ->
            LET constant == ParseConstant(node.children)
            IN  IF IsSome(constant) THEN Push(file, "constants", constant) ELSE file
      [] OTHER -> file

\* JavaScriptParser::visit_node for the declarations of the model
JavaScriptVisit(file, node) ==
    CASE node.kind = "class_declaration" ->
            Push(file, "classes",
                 <<Class(node.name, [i \in 1..Len(node.members) |-> Fn(node.members[i])])>>)
      [] node.kind = "function_declaration" -> Push(file, "functions", <<Fn(node.name)>>)
      [] node.kind \in {"lexical_declaration", "variable_declaration"} ->
            LET func == ParseArrowFunction(node.children)
            IN  IF IsSome(func) THEN Push(file, "functions", func) ELSE file
      [] OTHER -> file

Visit(language, file, node) ==
    CASE language = "Rust" -> RustVisit(file, node)
      [] language = "Go" -> GoVisit(file, node)
      [] language = "Python" -> PythonVisit(file, node)
      [] language = "JavaScript" -> JavaScriptVisit(file, node)

\* parse_source: `for child in root.children(&mut cursor)`
RECURSIVE ParseSource(_, _)
ParseSource(language, nodes) ==
    IF nodes = <<>> THEN EmptyParsed
    ELSE Visit(language, ParseSource(language, Front(nodes)), Last(nodes))

----------------------------------------------------------------------------
(* Specification of the adapters: parse_source on a source of up to MaxItems
   top-level items, then CodeGraph::add_file of the ParsedFile. *)

MaxItems == 2

Pt == <<"P", "t">>

MaxSizeName == <<"M", "a", "x", "S", "i", "z", "e">>

MAX_1 == <<"M", "A", "X", "_", "1">>



\* struct Pt; impl Pt { fn new() }; impl Show for Pt { fn fmt() }; fn main();
\* const MAX_1; const max; static globalVar (rust.rs, tests)
RustItems ==
    { Node("struct_item", Pt, None, None, <<>>, <<>>),
      Node("impl_item", <<>>, Pt, None, <<<<"n", "e", "w">>>>, <<>>),
      Node("impl_item", <<>>, Pt, Some(<<"S", "h", "o", "w">>), <<<<"f", "m", "t">>>>, <<>>),
      Node("function_item", <<"m", "a", "i", "n">>, None, None, <<>>, <<>>),
      Node("const_item", MAX_1, None, None, <<>>, <<>>),
      Node("const_item", <<"m", "a", "x">>, None, None, <<>>, <<>>),
      Node("static_item", <<"g", "l", "o", "b", "a", "l", "V", "a", "r">>, None, None, <<>>, <<>>) }

\* type Pt struct{}; func (p *Pt) Area(); func (p Pt) Name(); func main();
\* const MaxSizeName = 100; const MAX_1 = 1; var globalVar = 1 (go.rs, tests)
GoItems ==
    { Node("type_declaration", <<>>, None, None, <<>>,
           <<Node("type_spec", Pt, None, None, <<>>, <<>>)>>),
      Node("method_declaration", <<"A", "r", "e", "a">>, Some(<<"*">> \o Pt), None, <<>>, <<>>),
      Node("method_declaration", <<"N", "a", "m", "e">>, Some(Pt), None, <<>>, <<>>),
      Node("function_declaration", <<"m", "a", "i", "n">>, None, None, <<>>, <<>>),
      Node("const_declaration", <<>>, None, None, <<>>,
           <<Node("const_spec", <<>>, None, None, <<MaxSizeName>>, <<>>)>>),
      Node("const_declaration", <<>>, None, None, <<>>,
           <<Node("const_spec", <<>>, None, None, <<MAX_1>>, <<>>)>>),
      Node("var_declaration", <<>>, None, None, <<>>,
           <<Node("var_spec", <<>>, None, None,
                  <<<<"g", "l", "o", "b", "a", "l", "V", "a", "r">>>>, <<>>)>>) }

Assignment(leaves) ==
    Node("expression_statement", <<>>, None, None, <<>>,
         <<Node("assignment", <<>>, None, None, <<>>, leaves)>>)

\* class Pt: def area(self); def main(); MAX_1 = 1; max = 1; max = MAX_1;
\* MaxSizeName = 1 (python.rs, tests)
PythonItems ==
    { Node("class_definition", Pt, None, None, <<<<"a", "r", "e", "a">>>>, <<>>),
      Node("function_definition", <<"m", "a", "i", "n">>, None, None, <<>>, <<>>),
      Assignment(<<Leaf("identifier", MAX_1), Leaf("=", <<"=">>), Leaf("integer", <<"1">>)>>),
      Assignment(<<Leaf("identifier", <<"m", "a", "x">>), Leaf("=", <<"=">>),
                   Leaf("integer", <<"1">>)>>),
      Assignment(<<Leaf("identifier", <<"m", "a", "x">>), Leaf("=", <<"=">>),
                   Leaf("identifier", MAX_1)>>),
      Assignment(<<Leaf("identifier", MaxSizeName), Leaf("=", <<"=">>), Leaf("integer", <<"1">>)>>) }

Declaration(name, value_kind) ==
    Node("lexical_declaration", <<>>, None, None, <<>>,
         <<Node("variable_declarator", name, None, None, <<>>, <<Leaf(value_kind, <<>>)>>)>>)

\* class Pt { area() }; function main(); const run = () => {}; const MAX_1 = 1;
\* const max = 1 (javascript.rs, tests)
JavaScriptItems ==
    { Node("class_declaration", Pt, None, None, <<<<"a", "r", "e", "a">>>>, <<>>),
      Node("function_declaration", <<"m", "a", "i", "n">>, None, None, <<>>, <<>>),
      Declaration(<<"r", "u", "n">>, "arrow_function"),
      Declaration(MAX_1, "number"),
      Declaration(<<"m", "a", "x">>, "number") }

ItemsOf(language) ==
    CASE language = "Rust" -> RustItems
      [] language = "Go" -> GoItems
      [] language = "Python" -> PythonItems
      [] language = "JavaScript" -> JavaScriptItems

Languages == {"Python", "JavaScript", "Rust", "Go"}

SourcesOf(language) ==
    UNION {[1..n -> ItemsOf(language)] : n \in 0..MaxItems}

InitParse ==
    /\ \E language \in Languages : \E nodes \in SourcesOf(language) :
          rin = [language |-> language, nodes |-> nodes]
    /\ rout = <<>> /\ resolver = <<>> /\ rprev = <<>>
    /\ pc = "source"
    /\ graph = NewGraph /\ ret = NoRet
    /\ modules = <<>> /\ min_files = 1 /\ files_order = <<>>
    /\ AnalyzerIdle

\* parser.parse_source(source, path, module_name)
ParseCall ==
    /\ pc = "source"
    /\ rout' = ParseSource(rin.language, rin.nodes)
    /\ pc' = "parsed"
    /\ UNCHANGED <<graph, ret, detectorVars, analyzerVars, rin, resolver, rprev>>

\* graph.add_file(&parsed_file)
ParseAddFile ==
    /\ pc = "parsed"
    /\ LET r == AddFile(graph, rout)
       IN  graph' = r.g /\ ret' = [op |-> "add_file", id |-> r.id]
    /\ pc' = "added"
    /\ UNCHANGED <<detectorVars, analyzerVars, resolverVars>>

NextParse == ParseCall \/ ParseAddFile

SpecParse == InitParse /\ [][NextParse]_vars

\* The type declarations of the source: their names.
DeclaredTypes ==
    {rin.nodes[i].name : i \in {k \in 1..Len(rin.nodes) :
                                   rin.nodes[k].kind \in {"struct_item", "enum_item"}}}
    \cup UNION {{rin.nodes[i].children[k].name : k \in 1..Len(rin.nodes[i].children)} :
                i \in {k \in 1..Len(rin.nodes) : rin.nodes[k].kind = "type_declaration"}}

\* The methods attached by an implementation block or a receiver: the pairs
\* of subject type and method name.
AttachedMethods ==
    UNION {{<<rin.nodes[i].subject, rin.nodes[i].members[k]>> :
              k \in 1..Len(rin.nodes[i].members)} :
           i \in {k \in 1..Len(rin.nodes) : rin.nodes[k].kind = "impl_item"}}
    \cup {<<TrimStars(Unwrap(rin.nodes[i].subject)), rin.nodes[i].name>> :
           i \in {k \in 1..Len(rin.nodes) : rin.nodes[k].kind = "method_declaration"}}

\* The function node is the method `name` of a class named `subject`.
IsMethodOf(fid, subject, name) ==
    /\ IsSome(graph.functions[fid].class)
    /\ LET cid == Unwrap(graph.functions[fid].class)
       IN  /\ cid \in DOMAIN graph.classes
           /\ graph.classes[cid].name = subject
           /\ fid \in Range(graph.classes[cid].methods)
    /\ \/ graph.functions[fid].name = name
       \/ graph.functions[fid].name = subject \o <<":", ":">> \o name
       \/ graph.functions[fid].name = subject \o <<".">> \o name

\* C22: after add_file of a parsed Rust or Go source, every method that an
\* impl block or a receiver attaches to a type declared in the same file,
\* before or after it, is a FunctionNode that references the ClassId of the
\* class of that name and is listed in that class's methods.
C22_AttachedMethodsOwnedByClass ==
    pc = "added" =>
        \A method \in AttachedMethods :
            method[1] \in DeclaredTypes =>
                \E fid \in DOMAIN graph.functions : IsMethodOf(fid, method[1], method[2])

\* The names a top-level item binds.
BoundNames(node) ==
    CASE node.kind \in {"const_item", "static_item"} -> {node.name}
      [] node.kind \in {"const_declaration", "var_declaration", "lexical_declaration"} ->
            UNION {Range(node.children[k].members) \cup
                   (IF node.children[k].name = <<>> THEN {} ELSE {node.children[k].name}) :
                   k \in 1..Len(node.children)}
      [] node.kind = "expression_statement" ->
            {node.children[k].children[1].text : k \in 1..Len(node.children)}
      [] OTHER -> {}

\* C23: every constant of the ParsedFile of any adapter has a name of
\* uppercase letters, underscores and digits only, and a top-level binding
\* with another name is not among the constants.
C23_ConstantsAreAllCaps ==
    pc \in {"parsed", "added"} =>
        /\ \A i \in 1..Len(rout.constants) : IsAllCaps(rout.constants[i])
        /\ \A i \in 1..Len(rin.nodes) : \A name \in BoundNames(rin.nodes[i]) :
              ~IsAllCaps(name) => name \notin Range(rout.constants)

\* What holds of the constants: the Python and JavaScript adapters record
\* names in capitals only.
ConstantsAreAllCapsWhereChecked ==
    (pc \in {"parsed", "added"} /\ rin.language \in {"Python", "JavaScript"}) =>
        /\ \A i \in 1..Len(rout.constants) : IsAllCaps(rout.constants[i])
        /\ \A i \in 1..Len(rin.nodes) : \A name \in BoundNames(rin.nodes[i]) :
              ~IsAllCaps(name) => name \notin Range(rout.constants)

----------------------------------------------------------------------------
(* Specification of Analyzer::path_to_module_name: one call for a source file
   of any language, up to MaxDepth directories below the root. *)

DirectoryNames == { <<"src">>, <<"pkg">>, <<"utils">> }

\* main.py, __init__.py, index.py, mod.py; main.js, index.js, index.ts,
\* index.tsx, types.d.ts, index.mjs; main.rs, mod.rs, lib.rs, index.rs;
\* main.go, index.go, lib.go
PlainFileNames ==
    { <<"main", "py">>, InitPy, <<"index", "py">>, <<"mod", "py">>,
      <<"main", "js">>, <<"index", "js">>, <<"index", "ts">>, <<"index", "tsx">>,
      <<"types", "d", "ts">>, <<"index", "mjs">>,
      <<"main", "rs">>, <<"mod", "rs">>, <<"lib", "rs">>, <<"index", "rs">>,
      <<"main", "go">>, <<"index", "go">>, <<"lib", "go">> }

\* main.py.py, __init__.py.py, mod.rs.rs, index.js.js
DoubledFileNames ==
    { <<"main", "py", "py">>, <<"__init__", "py", "py">>, <<"mod", "rs", "rs">>,
      <<"index", "js", "js">> }

SourceFileNames == PlainFileNames \cup DoubledFileNames

DirectoriesBelowRoot == UNION {[1..n -> DirectoryNames] : n \in 0..MaxDepth}

InitModuleName ==
    /\ \E dirs \in DirectoriesBelowRoot : \E name \in SourceFileNames :
          rin = [path |-> ProjectRoot \o dirs \o <<name>>, root |-> ProjectRoot,
                 language |-> LanguageFromExtension(Last(name))]
    /\ rout = <<>> /\ resolver = <<>> /\ rprev = <<>>
    /\ pc = "ready"
    /\ graph = NewGraph /\ ret = NoRet
    /\ modules = <<>> /\ min_files = 1 /\ files_order = <<>>
    /\ AnalyzerIdle

\* self.path_to_module_name(path, root, language)
ModuleNameCall ==
    /\ pc = "ready"
    /\ rout' = AnalyzerPathToModuleName(rin.path, rin.root, rin.language)
    /\ pc' = "named"
    /\ UNCHANGED <<graph, ret, detectorVars, analyzerVars, rin, resolver, rprev>>

NextModuleName == ModuleNameCall

SpecModuleName == InitModuleName /\ [][NextModuleName]_vars

\* The name the rule gives: the components below the root, the last one
\* without its extension, without a trailing index component, joined by the
\* separator of the language.
NameByRule(path, root, language) ==
    LET relative == SubSeq(path, Len(root) + 1, Len(path))
        stem == Front(Last(relative))
        parts == Front(relative) \o <<stem>>
        index == CASE language = Some("Python") -> {<<"__init__">>}
                   [] language = Some("Rust") -> {<<"mod">>, <<"lib">>}
                   [] language = Some("Go") -> {}
                   [] OTHER -> {<<"index">>}
        kept == IF Last(parts) \in index THEN Front(parts) ELSE parts
        sep == CASE language = Some("Python") -> "."
                 [] language = Some("Rust") -> "::"
                 [] OTHER -> "/"
    IN  IF kept = <<>> THEN <<"">>
        ELSE IF sep = "." THEN Concat(kept)
        ELSE JoinWith(kept, sep)

\* C24: path_to_module_name returns the root-relative path with the source
\* extension stripped from the last component, a trailing index component
\* (__init__ for Python, index for JavaScript/TypeScript, mod or lib for Rust,
\* none for Go) dropped, and the rest joined with '.' for Python, '/' for
\* JavaScript/TypeScript/Go and '::' for Rust.
C24_ModuleNameFromRelativePath ==
    pc = "named" => rout = NameByRule(rin.path, rin.root, rin.language)

\* What holds: the rule gives the name of every file whose name does not end
\* in a repetition of its extension.
ModuleNameFromRelativePathUnlessDoubled ==
    (pc = "named" /\ Last(rin.path) \in PlainFileNames) =>
        rout = NameByRule(rin.path, rin.root, rin.language)

\* An index file two directories down named like its directory, and a Go file
\* named index keeping its name.
ModuleNameWitness ==
    /\ pc = "named"
    /\ \/ rin.path = ProjectRoot \o <<<<"src">>, <<"utils">>, <<"mod", "rs">>>>
          /\ rout = <<"src::utils">>
       \/ rin.path = ProjectRoot \o <<<<"src">>, <<"index", "go">>>>
          /\ rout = <<"src/index">>

----------------------------------------------------------------------------
(* Claims about the edges of the analysed graph *)

EdgesAreAdded == pc \in {"detect", "done"}

\* The edges resolve_imports adds for the import of a file, with what the
\* resolver returned for that import.
EdgesOfImport(file_id, import) ==
    LET r == NewResolver(ProjectRoot, {})
        fs == {f.path : f \in disk}
    IN  [added |-> EdgesOfImports(graph, r, fs, ModuleMap(graph, files_order),
                                  file_id, <<import>>),
         resolved |-> Resolve(r, fs, import, graph.files[file_id].path)]

\* The FileId an Imports edge between files leads to.
TargetOf(edge) == edge.to.id

\* C25: every Imports edge that resolve_imports adds for an import of a file
\* leads to the file the resolver located for that import: the path of the
\* target FileId is the resolved_path of the ResolvedImport, for direct, from
\* and relative imports, also when the importing file is an __init__.py.
C25_EdgeTargetIsResolvedPath ==
    EdgesAreAdded =>
        \A id \in DOMAIN graph.files :
            \A i \in 1..Len(graph.files[id].imports) :
                LET e == EdgesOfImport(id, graph.files[id].imports[i])
                IN  \A k \in 1..Len(e.added) :
                        /\ e.added[k] \in Range(graph.edges)
                        /\ e.resolved.resolved_path =
                              Some(graph.files[TargetOf(e.added[k])].path)

\* What holds: the edge of an import made by a file that is no __init__.py
\* leads to the resolved file.
EdgeTargetIsResolvedPathOutsideInit ==
    EdgesAreAdded =>
        \A id \in DOMAIN graph.files :
            Last(graph.files[id].path) # InitPy =>
                \A i \in 1..Len(graph.files[id].imports) :
                    LET e == EdgesOfImport(id, graph.files[id].imports[i])
                    IN  \A k \in 1..Len(e.added) :
                            e.resolved.resolved_path =
                                Some(graph.files[TargetOf(e.added[k])].path)

\* The edges of the graph that leave the file.
EdgesLeaving(id) == SelectSeq(graph.edges, LAMBDA e : e.from = FileNodeId(id))

\* C26: in the graph analyze returns, every edge is an Imports edge between
\* two different FileIds of graph.files; no edge leads from a file to itself
\* or touches a file that failed to parse, and no more edges leave a file than
\* it has imports.
C26_EdgesJoinDistinctParsedFiles ==
    EdgesAreAdded =>
        /\ \A k \in 1..Len(graph.edges) :
              LET e == graph.edges[k]
              IN  /\ e.kind = "Imports"
                  /\ e.from.tag = "File" /\ e.to.tag = "File"
                  /\ e.from.id \in DOMAIN graph.files
                  /\ e.to.id \in DOMAIN graph.files
                  /\ e.from.id # e.to.id
                  /\ graph.files[e.from.id].path \notin DOMAIN parse_errors
                  /\ graph.files[e.to.id].path \notin DOMAIN parse_errors
        /\ \A id \in DOMAIN graph.files :
              Len(EdgesLeaving(id)) <= Len(graph.files[id].imports)

\* A finished analysis with an edge, a file that imports itself, and a file
\* that failed to parse although another file imports it.
C26_Witness ==
    /\ pc = "done"
    /\ graph.edges # <<>>
    /\ \E id \in DOMAIN graph.files :
          \E i \in 1..Len(graph.files[id].imports) :
             /\ graph.files[id].imports[i].module = graph.files[id].module_name
             /\ EdgesOfImport(id, graph.files[id].imports[i]).resolved.import_type = "Local"
             /\ EdgesLeaving(id) = <<>>
    /\ \E id \in DOMAIN graph.files :
          \E i \in 1..Len(graph.files[id].imports) :
             LET resolved == EdgesOfImport(id, graph.files[id].imports[i]).resolved
             IN  /\ resolved.import_type = "Local"
                 /\ Unwrap(resolved.resolved_path) \in DOMAIN parse_errors

----------------------------------------------------------------------------
(* Claims about the FileIds of the analysed graph *)

\* The files of the sorted list that the loop has gone through and parsed.
ParsedSoFar ==
    SelectSeq(SubSeq(source_files, 1, Processed), LAMBDA path : path \notin DOMAIN parse_errors)

\* C27: parse_and_build_graph gives the k-th successfully parsed file of the
\* sorted list the FileId k-1, a failed file using up no id: the FileIds of
\* the graph are 0 .. stats().files - 1, and a smaller FileId means a smaller
\* path.
C27_FileIdsDenseInPathOrder ==
    pc \in {"parse", "resolve", "detect", "done"} =>
        /\ DOMAIN graph.files = 0..(Stats(graph).files - 1)
        /\ Stats(graph).files = Len(ParsedSoFar)
        /\ graph.next_file_id = Len(ParsedSoFar)
        /\ \A k \in 1..Len(ParsedSoFar) : graph.files[k - 1].path = ParsedSoFar[k]
        /\ \A i, j \in DOMAIN graph.files :
              i < j <=> PathLess(graph.files[i].path, graph.files[j].path)

\* A finished analysis in which a file failed between two files that were
\* parsed, and these two are the files 0 and 1.
C27_Witness ==
    /\ pc = "done"
    /\ \E i, j, k \in 1..Len(source_files) :
          /\ i < j /\ j < k
          /\ source_files[j] \in DOMAIN parse_errors
          /\ 0 \in DOMAIN graph.files /\ graph.files[0].path = source_files[i]
          /\ 1 \in DOMAIN graph.files /\ graph.files[1].path = source_files[k]

----------------------------------------------------------------------------
(* Line counters of the adapters: count_lines in src/parser/*.rs. A source
   text is the list of its characters. *)

\* str::lines: the pieces between line feeds, a last empty piece left out
RECURSIVE SplitLines(_)
SplitLines(source) ==
    IF source = <<>> THEN << <<>> >>
    ELSE LET rest == SplitLines(Tail(source))
         IN  IF Head(source) = "\n" THEN << <<>> >> \o rest
             ELSE << <<Head(source)>> \o Head(rest) >> \o Tail(rest)

Lines(source) ==
    LET pieces == SplitLines(source)
    IN  IF Last(pieces) = <<>> THEN Front(pieces) ELSE pieces

RECURSIVE TrimStart(_)
TrimStart(line) ==
    IF line # <<>> /\ Head(line) \in {" ", "\t"} THEN TrimStart(Tail(line)) ELSE line

RECURSIVE TrimEnd(_)
TrimEnd(line) ==
    IF line # <<>> /\ Last(line) \in {" ", "\t"} THEN TrimEnd(Front(line)) ELSE line

\* str::trim
Trim(line) == TrimEnd(TrimStart(line))

\* str::starts_with
StartsWith(line, prefix) ==
    Len(line) >= Len(prefix) /\ SubSeq(line, 1, Len(prefix)) = prefix

NoLines == [total |-> 0, code |-> 0, comment |-> 0, blank |-> 0, in_block_comment |-> FALSE]

\* python.rs, count_lines, lines 123-137: the loop body
PythonCountLine(counts, line) ==
    LET trimmed == Trim(line)
        c == [counts EXCEPT !.total = @ + 1]
    IN  IF trimmed = <<>> THEN c
        ELSE IF StartsWith(trimmed, <<"#">>) THEN [c EXCEPT !.comment = @ + 1]
        ELSE IF Contains(trimmed, <<"#">>) THEN [c EXCEPT !.code = @ + 1, !.comment = @ + 1]
        ELSE [c EXCEPT !.code = @ + 1]

\* javascript.rs, count_lines, lines 192-218: the loop body
JavaScriptCountLine(counts, line) ==
    LET trimmed == Trim(line)
        c == [counts EXCEPT !.total = @ + 1]
    IN  IF trimmed = <<>> THEN c
        ELSE IF c.in_block_comment
        THEN [c EXCEPT !.comment = @ + 1,
                       !.in_block_comment = ~Contains(trimmed, <<"*", "/">>)]
        ELSE IF StartsWith(trimmed, <<"/", "/">>) THEN [c EXCEPT !.comment = @ + 1]
        ELSE IF StartsWith(trimmed, <<"/", "*">>)
        THEN [c EXCEPT !.comment = @ + 1,
                       !.in_block_comment = ~Contains(trimmed, <<"*", "/">>)]
        ELSE [c EXCEPT !.code = @ + 1]

\* rust.rs, count_lines, lines 492-513, and go.rs, count_lines, lines 521-542:
\* the loop body
RustCountLine(counts, line) ==
    LET trimmed == Trim(line)
        c == [counts EXCEPT !.total = @ + 1]
    IN  IF c.in_block_comment
        THEN [c EXCEPT !.comment = @ + 1,
                       !.in_block_comment = ~Contains(trimmed, <<"*", "/">>)]
        ELSE IF trimmed = <<>> THEN [c EXCEPT !.blank = @ + 1]
        ELSE IF StartsWith(trimmed, <<"/", "/">>) THEN [c EXCEPT !.comment = @ + 1]
        ELSE IF StartsWith(trimmed, <<"/", "*">>)
        THEN [c EXCEPT !.comment = @ + 1,
                       !.in_block_comment = ~Contains(trimmed, <<"*", "/">>)]
        ELSE [c EXCEPT !.code = @ + 1]

CountLine(language, counts, line) ==
    CASE language = "Python" -> PythonCountLine(counts, line)
      [] language = "JavaScript" -> JavaScriptCountLine(counts, line)
      [] language \in {"Rust", "Go"} -> RustCountLine(counts, line)

\* count_lines: `for line in source.lines()`
RECURSIVE Tally(_, _)
Tally(language, lines) ==
    IF lines = <<>> THEN NoLines
    ELSE CountLine(language, Tally(language, Front(lines)), Last(lines))

\* count_lines, with the closing adjustment of python.rs, lines 140-142
CountLines(language, source) ==
    LET counts == Tally(language, Lines(source))
    IN  IF language = "Python" /\ source # <<>> /\ counts.total = 0
        THEN [counts EXCEPT !.total = 1]
        ELSE counts

\* usize::saturating_sub
SaturatingSub(a, b) == IF a >= b THEN a - b ELSE 0

\* metrics.rs, FileMetrics::from_graph, lines 57-60
BlankLines(file) == SaturatingSub(file.total_lines, file.code_lines + file.comment_lines)

----------------------------------------------------------------------------
(* Specification of the line counters: count_lines of one adapter on a source
   of up to MaxChars characters, as parse_source stores it and
   FileMetrics::from_graph reads it. *)

MaxChars == 4

SourceChars == {"x", " ", "#", "/", "*", "\n"}

SourceTexts == UNION {[1..n -> SourceChars] : n \in 0..MaxChars}

InitLines ==
    /\ \E language \in Languages : \E source \in SourceTexts :
          rin = [language |-> language, source |-> source]
    /\ rout = <<>> /\ resolver = <<>> /\ rprev = <<>>
    /\ pc = "source"
    /\ graph = NewGraph /\ ret = NoRet
    /\ modules = <<>> /\ min_files = 1 /\ files_order = <<>>
    /\ AnalyzerIdle

\* parse_source, the line counts of the ParsedFile
LinesCall ==
    /\ pc = "source"
    /\ LET counts == CountLines(rin.language, rin.source)
       IN  rout' = [total_lines |-> counts.total, code_lines |-> counts.code,
                    comment_lines |-> counts.comment]
    /\ pc' = "counted"
    /\ UNCHANGED <<graph, ret, detectorVars, analyzerVars, rin, resolver, rprev>>

NextLines == LinesCall

SpecLines == InitLines /\ [][NextLines]_vars

\* What the counter added for line i of the source: to code and to comment.
CountedAs(i) ==
    LET lines == Lines(rin.source)
        before == Tally(rin.language, SubSeq(lines, 1, i - 1))
        after == Tally(rin.language, SubSeq(lines, 1, i))
    IN  [code |-> after.code - before.code, comment |-> after.comment - before.comment]

LineNumbers == 1..Len(Lines(rin.source))

EachLineCountedOnce ==
    /\ \A i \in LineNumbers : CountedAs(i).code + CountedAs(i).comment <= 1
    /\ rout.code_lines + rout.comment_lines <= rout.total_lines
    /\ BlankLines(rout) =
          Cardinality({i \in LineNumbers : CountedAs(i).code + CountedAs(i).comment = 0})

\* C28: for the line counter of every adapter and every source text, a line
\* is counted in at most one of code_lines and comment_lines, so that
\* code_lines + comment_lines <= total_lines and FileMetrics.blank_lines is
\* the number of lines that are neither code nor comment.
C28_EachLineCodeOrCommentOrNeither ==
    pc = "counted" => EachLineCountedOnce

\* What holds: the counters of the JavaScript/TypeScript, Rust and Go adapters
\* count each line once.
LineCountedOnceOutsidePython ==
    (pc = "counted" /\ rin.language # "Python") => EachLineCountedOnce

----------------------------------------------------------------------------
(* Claims about the paths of resolved imports *)

\* C29: every resolved_path that resolve returns with import_type Local lies
\* inside the resolver's project_root, for every import kind, module path and
\* relative level, the current file being under the project root.
C29_LocalPathInsideProjectRoot ==
    (pc = "resolved" /\ rout.import_type = "Local") =>
        /\ IsPrefix(ProjectRoot, rin.current_file)
        /\ IsSome(rout.resolved_path)
        /\ IsPrefix(ProjectRoot, Unwrap(rout.resolved_path))

\* What holds: the path of a Local import that is not relative, or whose
\* level stays within the directories between the current file and the
\* project root, lies inside the project root.
LocalPathInsideProjectRootWithinLevels ==
    (/\ pc = "resolved" /\ rout.import_type = "Local"
     /\ \/ rin.import.kind # "Relative"
        \/ rin.import.level <= Len(rin.current_file) - Len(ProjectRoot)) =>
        IsPrefix(ProjectRoot, Unwrap(rout.resolved_path))

----------------------------------------------------------------------------
(* Claims about the coupling counts *)

RECURSIVE SumUpTo(_, _)
SumUpTo(counts, n) == IF n = 0 THEN 0 ELSE counts[n] + SumUpTo(counts, n - 1)

TotalOutgoing == SumUpTo([i \in 1..Len(modules) |-> modules[i].outgoing_imports], Len(modules))

TotalIncoming == SumUpTo([i \in 1..Len(modules) |-> modules[i].incoming_imports], Len(modules))

\* C30: after calculate_coupling, the outgoing_imports of all modules add up
\* to the same number as their incoming_imports, and neither count of a
\* module exceeds the number of the other modules.
C30_CouplingCountsBalance ==
    pc = "coupled" =>
        /\ TotalOutgoing = TotalIncoming
        /\ \A i \in 1..Len(modules) :
              /\ modules[i].outgoing_imports <= Len(modules) - 1
              /\ modules[i].incoming_imports <= Len(modules) - 1

\* Coupled modules of which one imports every other module, one is imported
\* by every other module, and one holds a file that imports the module itself.
C30_Witness ==
    /\ pc = "coupled"
    /\ Len(modules) >= 3
    /\ TotalOutgoing >= 2
    /\ \E i \in 1..Len(modules) : modules[i].incoming_imports = Len(modules) - 1
    /\ \E i \in 1..Len(modules) :
          /\ ImportedModulesWithSelf(graph, modules, i) # ImportedModules(graph, modules, i)

====
